---- MODULE Spec2Model ----
(***************************************************************************)
(* A model of the netidx subscriber core (single-flight non-durable        *)
(* subscription, the durable-subscription supervisor, the publisher        *)
(* connection task) and of the recorder's replay session.                  *)
(*                                                                         *)
(* Identifiers (SubId, ConId, the identity of an Arc<ValInner>) are opaque *)
(* in the program: only equality is ever observed.  The model draws a      *)
(* fresh identifier as the least one that no object of the state refers    *)
(* to, so that a fresh identifier is always different from every          *)
(* identifier still in use.  A weak reference whose object is gone can     *)
(* only fail to upgrade, and is kept as the one value that fails.          *)
(* Instants are kept as the number of seconds left until they are reached  *)
(* (0: reached).                                                           *)
(***************************************************************************)
EXTENDS Integers, Sequences, FiniteSets, TLC

\* ------------------------------------------------------------------ bounds
PathOrder == <<"a", "b">>
Paths == {PathOrder[i] : i \in 1..Len(PathOrder)}
DurablePaths == {"a"}
Users == {"u1", "u2"}
Sups == {"s1", "s2"}
OneSet == {"s1"}
Callers == Users \cup Sups
MaxIds == 2
MaxArcs == 2
MaxTries == 2
MaxUpdates == 2
MaxQueue == 2
MaxFaults == 2
MaxWire == 2
MaxWrites == 2
MaxCmds == 2
MaxCtl == 1
MaxBatches == 3
MaxBcast == 2

\* How many times the shutdown signal comes.
MaxSignals == 2

\* How long the router's clock runs, and the longest ttl of a referral.
MaxNow == 2

MaxTtl == 2

\* How many referrals of one send are followed where its depth is not the point.
MaxRounds == 2

\* The updates of one batch, the size a record holds, the updates the
\* recorder takes in all, the wall clock's range, and image_frequency.
MaxItems == 5

MaxRecord == 2

MaxTotal == 6

MaxWall == 2
MaxTicks == 3
Bits32 == 3
Bits64 == 5
MaxArray == 2
\* The subscriber's clock stops here, in seconds.
MaxInstant == 120
\* How many globs a recorder is given at most.
MaxGlobs == 3
\* How many records the archive of the oversized-batch runs holds at most.
MaxArchive == 8

image_frequency == 4

\* const MAX_REFERRALS
MAX_REFERRALS == 128
MaxSids == 5
max_sessions == 3
max_sessions_per_client == 2
MaxSubs == 2
MaxEvents == 2
MaxClients == 3
ChanOrder == <<"c1", "c2">>
Chans == {ChanOrder[i] : i \in 1..Len(ChanOrder)}
Writers == Users \X {"Val", "Dval"}

SubIds == 1..MaxIds
Arcs == 1..MaxArcs

\* ------------------------------------------------------------- data shapes
\* ValInner: the Arc's identity, the path it is subscribed to (which is also
\* the publisher's Id of the value), sub_id, conid.
NoVal == [arc |-> 0, path |-> "", sub_id |-> 0, conid |-> 0]

\* Result<Val>, and None for a oneshot that has not been sent to.
NoRes == [t |-> "none", val |-> NoVal, e |-> ""]
Ok(v) == [t |-> "ok", val |-> v, e |-> ""]
Err(e) == [t |-> "err", val |-> NoVal, e |-> e]

\* enum St of subscribe_nondurable; r is the oneshot's content for
\* Subscribing and WaitingOther, the Val or Error for Subscribed and Error,
\* and the future's output for Done.
St(k, r) == [k |-> k, r |-> r]
StNone == St("None", NoRes)

\* enum SubStatus, and the vacant entry of the `subscribed` map.
Vacant == [k |-> "Vacant", waiters |-> <<>>, val |-> NoVal]
Pending(ws) == [k |-> "Pending", waiters |-> ws, val |-> NoVal]
Subscribed(v) == [k |-> "Subscribed", waiters |-> <<>>, val |-> v]

\* DvalInner (sub_id is its index in dvals); DvState::Dead carries
\* queued_writes, tries and next_try, DvState::Subscribed carries val.
NoDval ==
    [state |-> "None", val |-> NoVal, tries |-> 0, next_try |-> 0,
     queued_writes |-> <<>>, streams |-> <<>>]
DvDead(tries, next_try, streams) ==
    [state |-> "Dead", val |-> NoVal, tries |-> tries, next_try |-> next_try,
     queued_writes |-> <<>>, streams |-> streams]

\* A netidx Value handed to write: the n-th one that writer `by` wrote.
NoValue == [by |-> <<>>, n |-> 0]

\* enum ToCon
ToCon(m, path, sub_id, caller, ch, last, v) ==
    [m |-> m, path |-> path, sub_id |-> sub_id, caller |-> caller, ch |-> ch,
     last |-> last, v |-> v]
ToConSubscribe(path, sub_id, caller) ==
    ToCon("Subscribe", path, sub_id, caller, "", FALSE, NoValue)
ToConUnsubscribe(path) == ToCon("Unsubscribe", path, 0, "", "", FALSE, NoValue)
ToConStream(path, sub_id, ch, last) == ToCon("Stream", path, sub_id, "", ch, last, NoValue)
ToConWrite(path, v) == ToCon("Write", path, 0, "", "", FALSE, v)

\* SubscribeValRequest as the connection task keeps it, and struct Sub.
NoReq == [on |-> FALSE, caller |-> "", sub_id |-> 0, deadline |-> FALSE]
NoSub == [on |-> FALSE, streams |-> <<>>, last |-> 0]

\* A frame from the publisher (protocol::publisher::From).
From(f, path, v) == [f |-> f, path |-> path, v |-> v]

IdleCall == [pc |-> "idle", batch |-> <<>>, st |-> [p \in Paths |-> StNone],
             timeout |-> FALSE]

VARIABLES
    subscribed,          \* SubscriberInner.subscribed
    durable_dead,        \* SubscriberInner.durable_dead: path -> Dval id, 0 absent
    durable_pending,     \* SubscriberInner.durable_pending
    durable_alive,       \* SubscriberInner.durable_alive
    dvals,               \* the DvalInner of every SubId
    call,                \* each subscribe_nondurable call in progress
    trigger_resub,       \* a message is queued on the trigger_resub channel
    retry,               \* the supervisor's retry instant, -1 for None
    subscription_batch,  \* the supervisor's collected results
    con,                 \* the entry of `connections` for the publisher
    from_sub,            \* the connection's queue of ToCon messages
    pending,             \* the connection task's pending Subscribe requests
    subscriptions,       \* the connection task's live subscriptions
    pub,                 \* the publisher's end of the connection
    wire,                \* frames from the publisher not yet read
    handle,              \* the Dval each user holds a strong reference to, 0 none
    chan,                \* what each stream channel has been sent
    written,             \* the Write frames the connection put on the socket
    faults,              \* how many times the environment has failed so far
    nwrites,             \* how many values each user has written so far
    state,               \* the replay session's T.state
    state_ctl,           \* the value the session publishes at control/state/current
    cluster_cmds,        \* the ClusterCmds the session has sent to its peers
    control_rx,          \* the control writes the session has not processed yet
    reply,               \* the writes of the last control batch answered Value::Error
    alen,                \* how many delta batches the archive holds (ts 1..alen)
    cursor,              \* T.cursor
    speed,               \* T.speed
    ctl,                 \* the start, end, speed and pos controls and the data image
    fut,                 \* the batch the pending future of T::next holds, 0 none
    bcast,               \* the session's broadcast::Receiver
    peer,                \* the session of the same id on a peer shard
    total,               \* SessionsInner.total
    by_client,           \* SessionsInner.by_client, 0 where there is no entry
    tokens,              \* the client of the Session token each session holds
    admitted,            \* what the last add_session returned: Some or None
    idle,                \* session's local `idle`
    used,                \* session's local `used`
    events_rx,           \* the publisher events the session has not taken yet
    held,                \* how many control and data values subscribers hold
    clients,             \* publisher.clients()
    new_client,          \* wait_any_new_client is ready
    running,             \* the session loop has not ended
    cluster_rx,          \* the ClusterCmds of peers the session has not taken yet
    pub_pc,              \* where publish::run is: "build", "loop" or "done"
    rec_pc,              \* where record::run is: "spawned", "loop", "batch" or "done"
    pub_rx,              \* publish::run's bcast_rx
    rec_rx,              \* record::run's bcast_rx
    signals,             \* how many times should_exit has returned
    returned,            \* run_async has returned
    cached,              \* Router.cached: the expiry of each base, 0 where absent
    now,                 \* Instant::now()
    routed,              \* the last route_batch: the batch and each request's bucket
    send_pc,             \* ResolverWrap::send: "idle", "route", "wait", "ok" or "err"
    referrals,           \* send's local `referrals`
    sbatch,              \* the batch send was called with
    waiters,             \* send's `waiters`: the ids of each sub-batch dispatched
    res,                 \* what send returned
    by_path,             \* ResolverWrapInner.by_path: the bases that have a connection
    executed,            \* history: how often a resolver has answered request i of this call
    archive,             \* the batches record::run has added to the archive
    sent,                \* the Batch messages record::run has given to bcast.send
    timest,              \* the last timestamp of record::run's MonotonicTimestamper
    wall,                \* the wall clock
    tbatch,              \* record::run's `tbatch`
    overflow,            \* record::run's `overflow`
    orig,                \* the items of the batch the rx_batch arm took last
    nitems,              \* how many items record::run has taken
    last_image,          \* record::run's `last_image`
    split_pc,            \* the rx_batch arm: "loop", "add" or "image"
    con_idle,            \* the connection task's local `idle`
    msg_recvd,           \* the connection task's local `msg_recvd`
    con_res,             \* the connection task: "none", "run" or its result
    recently_failed,     \* the publisher's address is in recently_failed
    hist,                \* what each tick of the connection found (history)
    va, vb, vc,          \* the Values the operations of Value are applied to
    vout,                \* the operation applied last and what it returned
    recently_failed_at,  \* SubscriberInner.recently_failed: address -> Instant, -1 absent
    last_err,            \* when a connection to each address last ended with an error, -1 never
    instant,             \* Instant::now() of the subscriber, in seconds
    gc_at,               \* when gc_recently_failed last ran, -1 never
    chosen,              \* the last call of choose_addr and what it returned
    globs,               \* the list of globs CTS::new is called with
    btm,                 \* CTS::new's `btm`: the bases that have a ChangeTracker
    glob_i               \* how many globs the loop of CTS::new has taken

subVars ==
    <<subscribed, durable_dead, durable_pending, durable_alive, dvals, call,
      trigger_resub, retry, subscription_batch, con, from_sub, pending,
      subscriptions, pub, wire, handle, chan, written, faults>>

recVars == <<state, state_ctl, cluster_cmds, control_rx, reply>>

playVars == <<alen, cursor, speed, ctl, fut, bcast, peer>>

\* What no step of a replay session touches.
limitVars == <<total, by_client, tokens, admitted>>

idleVars == <<idle, used, events_rx, held, clients, new_client, running>>

inVars == <<cluster_rx>>

stopVars == <<pub_pc, rec_pc, pub_rx, rec_rx, signals, returned>>

routeVars == <<cached, now, routed>>

sendVars == <<send_pc, referrals, sbatch, waiters, res, by_path, executed>>

splitVars ==
    <<archive, sent, timest, wall, tbatch, overflow, orig, nitems, last_image, split_pc>>

tickVars == <<con_idle, msg_recvd, con_res, recently_failed, hist>>

valueVars == <<va, vb, vc, vout>>

chooseVars == <<recently_failed_at, last_err, instant, gc_at, chosen>>

ctsVars == <<globs, btm, glob_i>>

restVars == <<limitVars, idleVars, inVars, stopVars, routeVars, sendVars, splitVars, tickVars, valueVars, chooseVars, ctsVars>>

\* What the rx_batch arm of record::run does not touch.
notSplit ==
    <<subVars, nwrites, recVars, playVars, limitVars, idleVars, inVars, stopVars,
      routeVars, sendVars, tickVars, valueVars, chooseVars, ctsVars>>

\* What the operations of Value are not about.
notValue ==
    <<subVars, nwrites, recVars, playVars, limitVars, idleVars, inVars, stopVars,
      routeVars, sendVars, splitVars, tickVars, chooseVars, ctsVars>>

\* What the connection task's heartbeat is not about.
notTick ==
    <<nwrites, recVars, playVars, limitVars, idleVars, inVars, stopVars, routeVars,
      sendVars, splitVars, valueVars, chooseVars, ctsVars>>

\* What choose_addr and recently_failed are not about.
notChoose ==
    <<subVars, nwrites, recVars, playVars,
      limitVars, idleVars, inVars, stopVars, routeVars, sendVars, splitVars, tickVars, valueVars, ctsVars>>

\* What CTS::new is not about.
notCts ==
    <<subVars, nwrites, recVars, playVars,
      limitVars, idleVars, inVars, stopVars, routeVars, sendVars, splitVars, tickVars, valueVars, chooseVars>>

\* What neither the router nor ResolverWrap::send touches.
settled ==
    <<subVars, nwrites, recVars, playVars, limitVars, idleVars, inVars, stopVars,
      splitVars, tickVars, valueVars, chooseVars, ctsVars>>

\* What no step of the subscriber's tasks touches.
elsewhere == <<nwrites, recVars, playVars, restVars>>

vars == <<subVars, nwrites, recVars, playVars, restVars>>

\* --------------------------------------------------------------- helpers
Min(S) == CHOOSE x \in S : \A y \in S : x <= y
Range(q) == {q[i] : i \in 1..Len(q)}

RECURSIVE SetToSeq(_)
SetToSeq(S) ==
    IF S = {} THEN <<>>
    ELSE LET x == CHOOSE y \in S : \A z \in S : y <= z
         IN <<x>> \o SetToSeq(S \ {x})

\* The paths of S, in one fixed order.
PathSeq(S) == SelectSeq(PathOrder, LAMBDA p : p \in S)

\* Every Val some strong reference (an Arc<ValInner>) points to: the ones in
\* the St of a call or in a oneshot sent to it, in the supervisor's collected
\* results, and in a Dval that is Subscribed.
StrongVals ==
    {call[c].st[p].r.val : c \in Callers, p \in Paths} \cup
    {subscription_batch[i].r.val : i \in 1..Len(subscription_batch)} \cup
    {dvals[d].val : d \in SubIds}

WeakVals == {subscribed[p].val : p \in Paths}

\* ValWeak::upgrade
ValUpgrade(w) == w # NoVal /\ w \in StrongVals

\* DvalWeak::upgrade: a Dval lives while a user holds a handle to it.  In the
\* durable maps 0 is no entry and Gone an entry whose Dval has been freed.
Gone == -1
DvalUpgrade(d) == d > 0 /\ \E u \in Users : handle[u] = d

\* The weak references of `subscribed` after a step that drops Vals.
ValWeakGC(S) ==
    [p \in Paths |->
        IF S[p].k = "Subscribed" /\ S[p].val \notin StrongVals'
        THEN [S[p] EXCEPT !.val = NoVal] ELSE S[p]]

\* The weak references of a durable map after Dval d has been freed.
DvalWeakGC(m, d) == [p \in Paths |-> IF m[p] = d THEN Gone ELSE m[p]]

UsedArcs == {v.arc : v \in StrongVals \cup WeakVals}

UsedSubIds ==
    {v.sub_id : v \in StrongVals \cup WeakVals} \cup
    {handle[u] : u \in Users} \cup
    {durable_dead[p] : p \in Paths} \cup
    {durable_pending[p] : p \in Paths} \cup
    {durable_alive[p] : p \in Paths} \cup
    {pending[p].sub_id : p \in Paths} \cup
    {from_sub[i].sub_id : i \in 1..Len(from_sub)}

\* atomic_id!: SubId::new(), for a Dval; 0 when the model's pool is used up.
\* The SubId drawn for a request that belongs to no Dval is compared with the
\* Dvals' only, and is the one value Fresh that none of them has.
Fresh == 0
NewSubId == IF SubIds \ UsedSubIds = {} THEN 0 ELSE Min(SubIds \ UsedSubIds)
\* ConId::new(): the Vals of a connection that died are re-marked conid 0 when
\* it dies, so the id of the (one) connection that is open is free again.
NewConId == 1
NewArc == IF Arcs \ UsedArcs = {} THEN 0 ELSE Min(Arcs \ UsedArcs)

\* impl Drop for ValInner: each Val whose last strong reference this step
\* drops sends Unsubscribe to the connection it belongs to; the send is lost
\* when that connection's task is gone.
Dropped == StrongVals \ StrongVals'
DropNotices(q) ==
    LET arcs == SetToSeq({v.arc : v \in {w \in Dropped :
                    w # NoVal /\ w.conid = con.id /\ con.state = "open"}})
        path(a) == (CHOOSE v \in Dropped : v.arc = a).path
    IN q \o [i \in 1..Len(arcs) |-> ToConUnsubscribe(path(arcs[i]))]

\* A message for the connection of Val v; lost when its task is gone.
SendTo(q, v, msgs) == IF con.state = "open" /\ v.conid = con.id THEN q \o msgs ELSE q

\* mpsc::channel(): a channel nobody has used yet, "" when the model's pool
\* is used up.
UsedChans ==
    UNION {Range(subscriptions[p].streams) : p \in Paths} \cup
    UNION {Range(dvals[d].streams) : d \in SubIds} \cup
    {from_sub[i].ch : i \in 1..Len(from_sub)} \cup
    {c \in Chans : chan[c] # <<>>}
NewChan ==
    LET free == SelectSeq(ChanOrder, LAMBDA c : c \notin UsedChans)
    IN IF free = <<>> THEN "" ELSE Head(free)

\* The resolver, the network and the publisher fail a bounded number of times.
Fault == faults < MaxFaults /\ faults' = faults + 1
NoFault == faults' = faults

\* The connection's queue and the socket's buffer hold a bounded number of
\* messages; a step that would exceed it waits.
Bounded == Len(from_sub') <= MaxQueue /\ Len(wire') <= MaxWire

\* ------------------------------------------- Subscriber::subscribe_nondurable
\* The first lock section ("Init"): the batch's paths in order, each against
\* the `subscribed` entry the paths before it left.
RECURSIVE InitPaths(_, _, _, _)
InitPaths(c, batch, S, P) ==
    IF batch = <<>> THEN [s |-> S, p |-> P]
    ELSE
      LET p == Head(batch)
          e == S[p]
      IN IF e.k = "Vacant" THEN
             InitPaths(c, Tail(batch), [S EXCEPT ![p] = Pending(<<>>)],
                       [P EXCEPT ![p] = St("Resolve", NoRes)])
         ELSE IF e.k = "Pending" THEN
             InitPaths(c, Tail(batch),
                       [S EXCEPT ![p] = Pending(Append(e.waiters, c))],
                       [P EXCEPT ![p] = St("WaitingOther", NoRes)])
         ELSE IF ValUpgrade(e.val) THEN
             InitPaths(c, Tail(batch), S, [P EXCEPT ![p] = St("Subscribed", Ok(e.val))])
         ELSE
             InitPaths(c, Tail(batch), [S EXCEPT ![p] = Pending(<<>>)],
                       [P EXCEPT ![p] = St("Resolve", NoRes)])

subscribe_nondurable_init(c, batch, timeout) ==
    LET r == InitPaths(c, batch, subscribed, IdleCall.st)
    IN /\ subscribed' = r.s
       /\ call' = [call EXCEPT ![c] = [pc |-> "resolving", batch |-> batch,
                                        st |-> r.p, timeout |-> timeout]]

\* SubscriberInner::durable_id
durable_id(p) ==
    LET w == IF durable_dead[p] # 0 THEN durable_dead[p]
             ELSE IF durable_pending[p] # 0 THEN durable_pending[p]
             ELSE durable_alive[p]
    IN IF DvalUpgrade(w) THEN w ELSE 0

\* The second lock section, for the paths the resolver found a publisher for:
\* the SubId, the connection, the Subscribe request.  c1 is the connection
\* entry after or_insert_with / start_connection.
RECURSIVE Connect(_, _, _, _, _)
Connect(c, ps, c1, P, Q) ==
    IF ps = <<>> THEN [p |-> P, q |-> Q]
    ELSE
      LET p == Head(ps)
          sub_id == IF durable_id(p) # 0 THEN durable_id(p) ELSE Fresh
      IN IF c1.state = "open" THEN
             Connect(c, Tail(ps), c1, [P EXCEPT ![p] = St("Subscribing", NoRes)],
                     Append(Q, ToConSubscribe(p, sub_id, c)))
         ELSE
             Connect(c, Tail(ps), c1,
                     [P EXCEPT ![p] = St("Error", Err("connection closed"))], Q)

\* The resolver's answer arrives (or the timeout fires) and the call goes on
\* to connect and subscribe.  found: the paths resolved to a publisher.
ResolveDone(c, outcome, found) ==
    LET to_resolve == {p \in Paths : call[c].st[p].k = "Resolve"}
        fail(e) == [p \in Paths |->
                      IF p \in to_resolve THEN St("Error", Err(e)) ELSE call[c].st[p]]
        c1 == IF found # {} /\ con.state = "none"
              THEN [state |-> "open", id |-> NewConId] ELSE con
        P0 == [p \in Paths |->
                 IF p \in to_resolve \ found
                 THEN St("Error", Err("path not found")) ELSE call[c].st[p]]
        r == Connect(c, PathSeq(found), c1, P0, from_sub)
    IN /\ call[c].pc = "resolving"
       /\ found \subseteq to_resolve
       /\ \/ /\ outcome = "timed out"
             /\ call[c].timeout
             /\ found = {}
             /\ call' = [call EXCEPT ![c].pc = "waiting", ![c].st = fail("resolve timed out")]
             /\ UNCHANGED <<con, from_sub>>
             /\ Fault
          \/ /\ outcome = "failed"
             /\ found = {}
             /\ call' = [call EXCEPT ![c].pc = "waiting", ![c].st = fail("resolve failed")]
             /\ UNCHANGED <<con, from_sub>>
             /\ Fault
          \/ /\ outcome = "resolved"
             /\ call' = [call EXCEPT ![c].pc = "waiting", ![c].st = r.p]
             /\ con' = c1
             /\ from_sub' = r.q
             /\ IF found = to_resolve THEN NoFault ELSE Fault
       /\ UNCHANGED <<elsewhere, subscribed, durable_dead, durable_pending, durable_alive, dvals,
                      trigger_resub, retry, subscription_batch, pending,
                      subscriptions, pub, wire, handle, chan, written>>
       /\ Bounded

\* The supervisor task is inside do_resub, awaiting subscribe_nondurable, and
\* polls nothing else until the resolver has answered.
supBusy == \E s \in Sups : call[s].pc \in {"init", "resolving"}

\* Notify with the bug of sending the waiters nothing.
Notify_nobody(C, ws, p, r) == C

\* A oneshot sender of the Pending entry is sent r.
Notify(C, ws, p, r) ==
    [x \in Callers |->
        IF x \in Range(ws) /\ C[x].st[p].k = "WaitingOther" /\ C[x].st[p].r = NoRes
        THEN [C[x] EXCEPT !.st[p].r = r] ELSE C[x]]

\* The future of path p yields r: a user keeps it, the supervisor's
\* next_subscription_result hands it to subscription_batch.  A set that has
\* yielded yields EndBatch before a set behind it is polled, and leaves the
\* queue of sets after that.
Complete(C, c, p, r) ==
    IF c \in Users THEN
        LET C1 == [C EXCEPT ![c].st[p] = St("Done", r)]
        IN [C1 EXCEPT ![c].pc =
                IF \A q \in Paths : C1[c].st[q].k \in {"None", "Done"}
                THEN "done" ELSE "waiting"]
    ELSE
        LET C1 == [C EXCEPT ![c].st[p] = StNone]
        IN IF \A q \in Paths : C1[c].st[q].k = "None"
           THEN [C1 EXCEPT ![c].pc = "ended"] ELSE C1

\* async fn wait_result, from the point where its await (if any) is over.
wait_result(c, p) ==
    LET s == call[c].st[p]
        e == subscribed[p]
        out(S, C, r) ==
            /\ subscribed' = S
            /\ call' = Complete(C, c, p, r)
            /\ subscription_batch' =
                   IF c \in Sups
                   THEN Append(subscription_batch, [path |-> p, r |-> r, set |-> c])
                   ELSE subscription_batch
    IN /\ call[c].pc = "waiting"
       /\ c \in Sups => ~supBusy /\ \A i \in 1..Len(subscription_batch) :
                                        subscription_batch[i].set = c
       /\ \/ /\ s.k = "Subscribed"
             /\ out(subscribed, call, s.r)
          \/ /\ s.k = "Error"
             /\ e.k # "Subscribed"
             /\ out([subscribed EXCEPT ![p] = Vacant], Notify(call, e.waiters, p, s.r), s.r)
          \/ /\ s.k = "WaitingOther"
             /\ s.r # NoRes
             /\ out(subscribed, call, s.r)
          \/ /\ s.k = "Subscribing"
             /\ s.r # NoRes
             /\ e.k = "Pending"
             /\ IF s.r.t = "err"
                THEN out([subscribed EXCEPT ![p] = Vacant],
                         Notify(call, e.waiters, p, s.r), s.r)
                ELSE out([subscribed EXCEPT ![p] = Subscribed(s.r.val)],
                         Notify(call, e.waiters, p, s.r), s.r)
       /\ UNCHANGED <<elsewhere, durable_dead, durable_pending, durable_alive, dvals, trigger_resub,
                      retry, con, pending, subscriptions, pub, wire, handle, chan,
                      written>>
       /\ from_sub' = DropNotices(from_sub)
       /\ Bounded
       /\ NoFault

\* A user starts a call of subscribe_nondurable; the Init section runs.
UserCall(u, batch, timeout) ==
    /\ call[u].pc = "idle"
    /\ subscribe_nondurable_init(u, batch, timeout)
    /\ UNCHANGED <<elsewhere, durable_dead, durable_pending, durable_alive, dvals, trigger_resub,
                   retry, subscription_batch, con, from_sub, pending, subscriptions,
                   pub, wire, handle, chan, written>>
    /\ NoFault

\* A user drops the Vals a finished call gave it.
UserDrop(u) ==
    /\ call[u].pc = "done"
    /\ call' = [call EXCEPT ![u] = IdleCall]
    /\ UNCHANGED <<elsewhere, durable_dead, durable_pending, durable_alive, dvals,
                   trigger_resub, retry, subscription_batch, con, pending,
                   subscriptions, pub, wire, handle, chan, written>>
    /\ subscribed' = ValWeakGC(subscribed)
    /\ from_sub' = DropNotices(from_sub)
    /\ Bounded
    /\ NoFault

\* The Val user u got for path p from a finished call, NoVal if none.
UserVal(u, p) == IF call[u].pc = "done" THEN call[u].st[p].r.val ELSE NoVal

\* Val::updates (UVal::updates makes the channel): user u asks for a stream
\* of the updates of its Val for p.
ValUpdates(u, p, last) ==
    /\ UserVal(u, p) # NoVal
    /\ NewChan # ""
    /\ from_sub' = SendTo(from_sub, UserVal(u, p),
                          <<ToConStream(p, UserVal(u, p).sub_id, NewChan, last)>>)
    /\ UNCHANGED <<elsewhere, subscribed, durable_dead, durable_pending, durable_alive,
                   dvals, call, trigger_resub, retry, subscription_batch, con, pending,
                   subscriptions, pub, wire, handle, chan, written>>
    /\ Bounded
    /\ NoFault

\* Val::write: user u writes its next value through its Val for p.
ValWrite(u, p) ==
    LET w == <<u, "Val">>
    IN /\ UserVal(u, p) # NoVal
       /\ nwrites[w] < MaxWrites
       /\ nwrites' = [nwrites EXCEPT ![w] = @ + 1]
       /\ from_sub' = SendTo(from_sub, UserVal(u, p),
                             <<ToConWrite(p, [by |-> w, n |-> nwrites[w] + 1])>>)
       /\ UNCHANGED <<recVars, playVars, restVars, subscribed, durable_dead, durable_pending,
                      durable_alive, dvals, call, trigger_resub, retry,
                      subscription_batch, con, pending, subscriptions, pub, wire,
                      handle, chan, written>>
       /\ Bounded
       /\ NoFault

\* ------------------------------------------------------- the publisher
PubInit == [subs |-> {}, val |-> [p \in Paths |-> 0]]

\* The publisher is sent To::Unsubscribe(id) and answers Unsubscribed(id).
PubGetsUnsubscribe(P, W, p) ==
    IF p \in P.subs
    THEN [pub |-> [P EXCEPT !.subs = @ \ {p}],
          wire |-> Append(W, From("Unsubscribed", p, 0))]
    ELSE [pub |-> P, wire |-> W]

\* The publisher is sent To::Subscribe(path) and answers f.
PubGetsSubscribe(P, W, p, f) ==
    [pub |-> [P EXCEPT !.subs = IF f = "Subscribed" THEN @ \cup {p} ELSE @],
     wire |-> Append(W, From(f, p, P.val[p]))]

\* The publisher ends a subscription of its own accord.
PubUnsubscribe(p) ==
    /\ con.state = "open"
    /\ p \in pub.subs
    /\ pub' = [pub EXCEPT !.subs = @ \ {p}]
    /\ wire' = Append(wire, From("Unsubscribed", p, 0))
    /\ UNCHANGED <<elsewhere, subscribed, durable_dead, durable_pending, durable_alive, dvals,
                   call, trigger_resub, retry, subscription_batch, con, from_sub,
                   pending, subscriptions, handle, chan, written>>
    /\ Bounded
    /\ Fault

\* The publisher updates the value of p, and tells its subscribers.
PubUpdate(p) ==
    /\ pub.val[p] < MaxUpdates
    /\ pub' = [pub EXCEPT !.val[p] = @ + 1]
    /\ wire' = IF p \in pub.subs THEN Append(wire, From("Update", p, pub.val[p] + 1))
               ELSE wire
    /\ UNCHANGED <<elsewhere, subscribed, durable_dead, durable_pending, durable_alive, dvals,
                   call, trigger_resub, retry, subscription_batch, con, from_sub,
                   pending, subscriptions, handle, chan, written>>
    /\ Bounded
    /\ NoFault

\* ------------------------------------------------- the connection task
NoCon == [state |-> "none", id |-> 0]

\* req.finished.send(r): the oneshot of the request of caller c for path p.
Deliver(C, c, p, r) ==
    IF c \in Callers /\ C[c].st[p].k = "Subscribing" /\ C[c].st[p].r = NoRes
    THEN [C EXCEPT ![c].st[p].r = r] ELSE C

\* fn unsubscribe, on U = the subscriber's maps: s subscribed, dd durable_dead,
\* da durable_alive, dv the Dvals, tr trigger_resub.
unsubscribe(U, p) ==
    LET d == U.da[p]
        U1 == IF d = 0 THEN U
              ELSE IF DvalUpgrade(d)
              THEN [U EXCEPT !.da[p] = 0, !.dd[p] = d, !.tr = TRUE,
                             !.dv[d] = DvDead(0, 0, U.dv[d].streams)]
              ELSE [U EXCEPT !.da[p] = 0]
    IN [U1 EXCEPT !.s[p] = IF @.k = "Subscribed" THEN Vacant ELSE @]

RECURSIVE unsubscribe_all(_, _)
unsubscribe_all(U, ps) ==
    IF ps = <<>> THEN U ELSE unsubscribe_all(unsubscribe(U, Head(ps)), Tail(ps))

SubscriberMaps ==
    [s |-> subscribed, dd |-> durable_dead, da |-> durable_alive, dv |-> dvals,
     tr |-> trigger_resub]

SetSubscriberMaps(U) ==
    /\ subscribed' = U.s
    /\ durable_dead' = U.dd
    /\ durable_alive' = U.da
    /\ dvals' = U.dv
    /\ trigger_resub' = U.tr

\* from_sub yields ToCon::Subscribe(req); f is the publisher's answer to the
\* To::Subscribe it is sent.
ConSubscribe(f) ==
    /\ con.state = "open"
    /\ from_sub # <<>>
    /\ Head(from_sub).m = "Subscribe"
    /\ LET m == Head(from_sub)
           old == pending[m.path]
       IN /\ pending' = [pending EXCEPT ![m.path] =
                 [on |-> TRUE, caller |-> m.caller, sub_id |-> m.sub_id,
                  deadline |-> call[m.caller].timeout]]
          /\ call' = IF old.on THEN Deliver(call, old.caller, m.path, Err("connection died"))
                     ELSE call
          /\ LET r == PubGetsSubscribe(pub, wire, m.path, f)
             IN pub' = r.pub /\ wire' = r.wire
    /\ from_sub' = Tail(from_sub)
    /\ UNCHANGED <<elsewhere, subscribed, durable_dead, durable_pending, durable_alive, dvals,
                   trigger_resub, retry, subscription_batch, con, subscriptions,
                   handle, chan, written>>
    /\ Bounded
    /\ IF f = "Subscribed" THEN NoFault ELSE Fault

\* from_sub yields ToCon::Unsubscribe(id)
ConUnsubscribe ==
    /\ con.state = "open"
    /\ from_sub # <<>>
    /\ Head(from_sub).m = "Unsubscribe"
    /\ LET r == PubGetsUnsubscribe(pub, wire, Head(from_sub).path)
       IN pub' = r.pub /\ wire' = r.wire
    /\ from_sub' = Tail(from_sub)
    /\ UNCHANGED <<elsewhere, subscribed, durable_dead, durable_pending, durable_alive, dvals,
                   call, trigger_resub, retry, subscription_batch, con, pending,
                   subscriptions, handle, chan, written>>
    /\ Bounded
    /\ NoFault

\* The periodic timer finds the request for p past its deadline.
ConTimeout(p) ==
    /\ con.state = "open"
    /\ pending[p].on
    /\ pending[p].deadline
    /\ pending' = [pending EXCEPT ![p] = NoReq]
    /\ call' = Deliver(call, pending[p].caller, p, Err("timed out"))
    /\ UNCHANGED <<elsewhere, subscribed, durable_dead, durable_pending, durable_alive, dvals,
                   trigger_resub, retry, subscription_batch, con, from_sub,
                   subscriptions, pub, wire, handle, chan, written>>
    /\ Fault

\* The publisher's answer to a Subscribe is a refusal: the request, if it is
\* still pending, fails with e.
Refuse(e) ==
    LET p == Head(wire).path
    IN /\ pending' = [pending EXCEPT ![p] = NoReq]
       /\ call' = IF pending[p].on THEN Deliver(call, pending[p].caller, p, Err(e))
                  ELSE call

\* The publisher's NoSuchValue(path) is read.
ConRefused ==
    /\ con.state = "open"
    /\ wire # <<>>
    /\ Head(wire).f = "NoSuchValue"
    /\ Refuse("no such value")
    /\ wire' = Tail(wire)
    /\ UNCHANGED <<elsewhere, subscribed, durable_dead, durable_pending, durable_alive,
                   dvals, trigger_resub, retry, subscription_batch, con, from_sub,
                   subscriptions, pub, handle, chan, written>>
    /\ NoFault

\* The publisher's Denied(path) is read: the request fails with
\* PermissionDenied.
ConDenied ==
    /\ con.state = "open"
    /\ wire # <<>>
    /\ Head(wire).f = "Denied"
    /\ Refuse("permission denied")
    /\ wire' = Tail(wire)
    /\ UNCHANGED <<elsewhere, subscribed, durable_dead, durable_pending, durable_alive, dvals,
                   trigger_resub, retry, subscription_batch, con, from_sub,
                   subscriptions, pub, handle, chan, written>>
    /\ NoFault

\* The publisher's Unsubscribed(id) is read.
ConUnsubscribed ==
    /\ con.state = "open"
    /\ wire # <<>>
    /\ Head(wire).f = "Unsubscribed"
    /\ LET p == Head(wire).path
       IN IF subscriptions[p].on
          THEN /\ subscriptions' = [subscriptions EXCEPT ![p] = NoSub]
               /\ SetSubscriberMaps(unsubscribe(SubscriberMaps, p))
          ELSE UNCHANGED <<subscriptions, subscribed, durable_dead, durable_alive,
                           dvals, trigger_resub>>
    /\ wire' = Tail(wire)
    /\ UNCHANGED <<elsewhere, durable_pending, call, retry, subscription_batch, con, pending, pub,
                   handle, chan, written>>
    /\ from_sub' = DropNotices(from_sub)
    /\ Bounded
    /\ NoFault

\* The publisher's Subscribed(path, id, last) is read.
ConSubscribed ==
    /\ con.state = "open"
    /\ wire # <<>>
    /\ Head(wire).f = "Subscribed"
    /\ LET p == Head(wire).path
           req == pending[p]
           val == [arc |-> NewArc, path |-> p, sub_id |-> req.sub_id, conid |-> con.id]
       IN IF ~req.on
          THEN /\ LET r == PubGetsUnsubscribe(pub, Tail(wire), p)
                  IN pub' = r.pub /\ wire' = r.wire
               /\ UNCHANGED <<pending, call, subscriptions>>
          ELSE /\ NewArc # 0
               /\ pending' = [pending EXCEPT ![p] = NoReq]
               /\ call' = Deliver(call, req.caller, p, Ok(val))
               /\ subscriptions' = [subscriptions EXCEPT ![p] =
                      [on |-> TRUE, streams |-> <<>>, last |-> Head(wire).v]]
               /\ wire' = Tail(wire)
               /\ pub' = pub
    /\ UNCHANGED <<elsewhere, subscribed, durable_dead, durable_pending, durable_alive, dvals,
                   trigger_resub, retry, subscription_batch, con, from_sub, handle,
                   chan, written>>
    /\ Bounded
    /\ NoFault

\* The loop over sub.streams with an index that never advances: only the
\* first stream is sent m.
SendAll_first(C, streams, m) ==
    IF streams = <<>> THEN C ELSE [C EXCEPT ![Head(streams)] = Append(@, m)]

\* sub.streams, each sent m in turn.
RECURSIVE SendAll(_, _, _)
SendAll(C, streams, m) ==
    IF streams = <<>> THEN C
    ELSE SendAll([C EXCEPT ![Head(streams)] = Append(@, m)], Tail(streams), m)

\* The publisher's Message(id, m) is read.
ConMessage ==
    /\ con.state = "open"
    /\ wire # <<>>
    /\ Head(wire).f = "Update"
    /\ LET p == Head(wire).path
           m == Head(wire).v
       IN IF ~subscriptions[p].on
          THEN /\ LET r == PubGetsUnsubscribe(pub, Tail(wire), p)
                  IN pub' = r.pub /\ wire' = r.wire
               /\ UNCHANGED <<subscriptions, chan>>
          ELSE /\ chan' = SendAll(chan, subscriptions[p].streams, m)
               /\ subscriptions' = [subscriptions EXCEPT ![p].last = m]
               /\ wire' = Tail(wire)
               /\ pub' = pub
    /\ UNCHANGED <<elsewhere, subscribed, durable_dead, durable_pending, durable_alive, dvals,
                   call, trigger_resub, retry, subscription_batch, con, from_sub,
                   pending, handle, written>>
    /\ Bounded
    /\ NoFault

\* from_sub yields ToCon::Stream {id, tx, last}
ConStream ==
    /\ con.state = "open"
    /\ from_sub # <<>>
    /\ Head(from_sub).m = "Stream"
    /\ LET m == Head(from_sub)
           sub == subscriptions[m.path]
       IN IF sub.on
          THEN /\ chan' = IF m.last THEN [chan EXCEPT ![m.ch] = Append(@, sub.last)]
                          ELSE chan
               /\ subscriptions' = [subscriptions EXCEPT ![m.path].streams =
                                        Append(@, m.ch)]
          ELSE UNCHANGED <<chan, subscriptions>>
    /\ from_sub' = Tail(from_sub)
    /\ UNCHANGED <<elsewhere, subscribed, durable_dead, durable_pending, durable_alive, dvals,
                   call, trigger_resub, retry, subscription_batch, con, pending, pub,
                   wire, handle, written>>
    /\ NoFault

\* from_sub yields ToCon::Write(id, v, _): the frame goes out on the socket.
ConWrite ==
    /\ con.state = "open"
    /\ from_sub # <<>>
    /\ Head(from_sub).m = "Write"
    /\ written' = Append(written, Head(from_sub).v)
    /\ from_sub' = Tail(from_sub)
    /\ UNCHANGED <<elsewhere, subscribed, durable_dead, durable_pending, durable_alive, dvals,
                   call, trigger_resub, retry, subscription_batch, con, pending,
                   subscriptions, pub, wire, handle, chan>>
    /\ NoFault

\* The main loop is left (socket error, hung publisher, idle) and the task
\* cleans up; the requests it holds or never read lose their oneshot.
RECURSIVE DeliverAll(_, _, _)
DeliverAll(C, reqs, r) ==
    IF reqs = <<>> THEN C
    ELSE DeliverAll(Deliver(C, Head(reqs).caller, Head(reqs).path, r), Tail(reqs), r)

\* The connection of Val v is closed.
Closed(v) == IF v = NoVal THEN v ELSE [v EXCEPT !.conid = 0]

\* What the task does after its loop: it leaves `connections`, its
\* subscriptions are unsubscribed and its pending requests fail.
ConCleanup ==
    /\ con' = NoCon
    /\ LET U == unsubscribe_all(SubscriberMaps,
                                PathSeq({p \in Paths : subscriptions[p].on}))
       IN SetSubscriberMaps(
              [U EXCEPT !.s = [p \in Paths |-> [U.s[p] EXCEPT !.val = Closed(@)]],
                        !.dv = [d \in SubIds |-> [U.dv[d] EXCEPT !.val = Closed(@)]]])
    /\ LET unanswered == [i \in 1..Len(PathSeq({p \in Paths : pending[p].on})) |->
                      LET p == PathSeq({q \in Paths : pending[q].on})[i]
                      IN [caller |-> pending[p].caller, path |-> p]]
           unread == SelectSeq(from_sub, LAMBDA m : m.m = "Subscribe")
           C == DeliverAll(call, unanswered \o unread, Err("connection died"))
       IN call' = [c \in Callers |->
                     [C[c] EXCEPT !.st = [p \in Paths |->
                                             [C[c].st[p] EXCEPT !.r.val = Closed(@)]]]]
    /\ subscription_batch' =
           [i \in 1..Len(subscription_batch) |->
               [subscription_batch[i] EXCEPT !.r.val = Closed(@)]]
    /\ pending' = [p \in Paths |-> NoReq]
    /\ subscriptions' = [p \in Paths |-> NoSub]
    /\ from_sub' = <<>>
    /\ wire' = <<>>
    /\ pub' = [PubInit EXCEPT !.val = pub.val]

ConDie ==
    /\ con.state = "open"
    /\ ConCleanup
    /\ UNCHANGED <<elsewhere, durable_pending, retry, handle, chan, written>>
    /\ Fault

\* ------------------------------------------------ durable subscriptions
\* Subscriber::subscribe with the bug of not looking in durable_pending.
subscribe_not_pending(u, p) ==
    LET w == IF durable_dead[p] # 0 THEN durable_dead[p] ELSE durable_alive[p]
        id == NewSubId
    IN /\ handle[u] = 0
       /\ IF DvalUpgrade(w)
          THEN /\ handle' = [handle EXCEPT ![u] = w]
               /\ UNCHANGED <<dvals, durable_dead, trigger_resub>>
          ELSE /\ id # 0
               /\ dvals' = [dvals EXCEPT ![id] = DvDead(0, 0, <<>>)]
               /\ durable_dead' = [durable_dead EXCEPT ![p] = id]
               /\ trigger_resub' = TRUE
               /\ handle' = [handle EXCEPT ![u] = id]
       /\ UNCHANGED <<elsewhere, subscribed, durable_pending, durable_alive, call,
                      retry, subscription_batch, con, from_sub, pending,
                      subscriptions, pub, wire, chan, written, faults>>

\* Subscriber::subscribe, called by user u, who keeps the Dval it returns.
subscribe(u, p) ==
    LET w == IF durable_dead[p] # 0 THEN durable_dead[p]
             ELSE IF durable_pending[p] # 0 THEN durable_pending[p]
             ELSE durable_alive[p]
        id == NewSubId
    IN /\ handle[u] = 0
       /\ IF DvalUpgrade(w)
          THEN /\ handle' = [handle EXCEPT ![u] = w]
               /\ UNCHANGED <<dvals, durable_dead, trigger_resub>>
          ELSE /\ id # 0
               /\ dvals' = [dvals EXCEPT ![id] = DvDead(0, 0, <<>>)]
               /\ durable_dead' = [durable_dead EXCEPT ![p] = id]
               /\ trigger_resub' = TRUE
               /\ handle' = [handle EXCEPT ![u] = id]
       /\ UNCHANGED <<elsewhere, subscribed, durable_pending, durable_alive, call, retry,
                      subscription_batch, con, from_sub, pending, subscriptions, pub,
                      wire, chan, written, faults>>

\* User u drops its Dval; the last reference frees the DvalInner and the Val
\* it holds.
DropDval(u) ==
    /\ handle[u] # 0
    /\ handle' = [handle EXCEPT ![u] = 0]
    /\ IF \E x \in Users \ {u} : handle[x] = handle[u]
       THEN UNCHANGED <<dvals, durable_dead, durable_pending, durable_alive>>
       ELSE /\ dvals' = [dvals EXCEPT ![handle[u]] = NoDval]
            /\ durable_dead' = DvalWeakGC(durable_dead, handle[u])
            /\ durable_pending' = DvalWeakGC(durable_pending, handle[u])
            /\ durable_alive' = DvalWeakGC(durable_alive, handle[u])
    /\ UNCHANGED <<elsewhere, call, trigger_resub, retry, subscription_batch, con, pending,
                   subscriptions, pub, wire, chan, written>>
    /\ subscribed' = ValWeakGC(subscribed)
    /\ from_sub' = DropNotices(from_sub)
    /\ Bounded
    /\ NoFault

\* Dval::updates: user u registers channel ch on its Dval.
DvalUpdates(u, ch, last) ==
    LET d == handle[u]
        dv == dvals[d]
    IN /\ d # 0
       /\ ch = NewChan \/ ch \in Range(dv.streams)
       /\ dvals' = [dvals EXCEPT ![d].streams =
                        IF ch \in Range(@) THEN @ ELSE Append(@, ch)]
       /\ from_sub' = IF dv.state = "Subscribed"
                      THEN SendTo(from_sub, dv.val,
                                  <<ToConStream(dv.val.path, d, ch, last)>>)
                      ELSE from_sub
       /\ UNCHANGED <<elsewhere, subscribed, durable_dead, durable_pending,
                      durable_alive, call, trigger_resub, retry, subscription_batch,
                      con, pending, subscriptions, pub, wire, handle, chan, written>>
       /\ Bounded
       /\ NoFault

\* Dval::write: user u writes its next value through its Dval; TRUE if it was
\* sent, FALSE if it was queued.
\* The match on the Dval's state forgotten: every write is sent at once.
DvalWriteSends_always(u) == TRUE

DvalWriteSends(u) == dvals[handle[u]].state = "Subscribed"

DvalWrite(u) ==
    LET d == handle[u]
        dv == dvals[d]
        w == <<u, "Dval">>
        v == [by |-> w, n |-> nwrites[w] + 1]
    IN /\ d # 0
       /\ nwrites[w] < MaxWrites
       /\ nwrites' = [nwrites EXCEPT ![w] = @ + 1]
       /\ IF DvalWriteSends(u)
          THEN /\ from_sub' = SendTo(from_sub, dv.val, <<ToConWrite(dv.val.path, v)>>)
               /\ dvals' = dvals
          ELSE /\ dvals' = [dvals EXCEPT ![d].queued_writes = Append(@, v)]
               /\ from_sub' = from_sub
       /\ UNCHANGED <<recVars, playVars, restVars, subscribed, durable_dead, durable_pending,
                      durable_alive, call, trigger_resub, retry, subscription_batch,
                      con, pending, subscriptions, pub, wire, handle, chan, written>>
       /\ Bounded
       /\ NoFault

\* ------------------------------------------------- start_resub_task
\* The supervisor hits unreachable!(): a live Dval of durable_dead that is
\* Subscribed.
DeadIsSubscribed(dd, dv) ==
    \E p \in Paths : DvalUpgrade(dd[p]) /\ dv[dd[p]].state # "Dead"

\* fn update_retry: the value it leaves in retry, -1 for None.  Instants that
\* are reached all count 0, so the early break does not change the minimum.
update_retry(dd, dv) ==
    LET L == {dv[dd[p]].next_try : p \in {q \in Paths : DvalUpgrade(dd[q])}}
    IN IF L = {} THEN -1 ELSE Min(L)

\* do_resub's Vec dead: the paths of durable_dead whose weak handle does not
\* upgrade.
\* The None arm of the upgrade left out: no path is pushed.
dead_unswept(dd) == {}

dead(dd) == {p \in Paths : dd[p] # 0 /\ ~DvalUpgrade(dd[p])}

\* do_resub's last loop forgotten: nothing leaves durable_dead.
durable_dead_remove_none(dd, ps) == dd

\* for p in dead.iter().chain(batch.iter()) { durable_dead.remove(p) }
durable_dead_remove(dd, ps) == [p \in Paths |-> IF p \in ps THEN 0 ELSE dd[p]]

\* async fn do_resub up to the call of subscribe_nondurable.  slots: the sets
\* of subscription futures the supervisor can have in flight; with all of them
\* in flight a pass that has a batch waits.
do_resub(slots) ==
    LET batch == {p \in Paths : DvalUpgrade(durable_dead[p])
                                   /\ dvals[durable_dead[p]].next_try = 0}
        dd == durable_dead_remove(durable_dead, dead(durable_dead) \cup batch)
        idleSlots == {s \in slots : call[s].pc = "idle"}
    IN /\ ~DeadIsSubscribed(durable_dead, dvals)
       /\ durable_dead' = dd
       /\ durable_pending' = [p \in Paths |->
              IF p \in batch THEN durable_dead[p] ELSE durable_pending[p]]
       /\ retry' = update_retry(dd, dvals)
       /\ IF batch = {} THEN call' = call
          ELSE /\ idleSlots # {}
               /\ call' = [call EXCEPT ![CHOOSE s \in idleSlots : TRUE] =
                      [pc |-> "init", batch |-> PathSeq(batch), st |-> IdleCall.st,
                       timeout |-> TRUE]]
       /\ UNCHANGED <<elsewhere, subscribed, durable_alive, dvals, subscription_batch, con,
                      from_sub, pending, subscriptions, pub, wire, handle, chan,
                      written, faults>>

\* incoming yields EndBatch
SupTrigger(slots) ==
    /\ trigger_resub
    /\ ~supBusy
    /\ trigger_resub' = FALSE
    /\ do_resub(slots)

\* wait_retry(retry) is over
SupRetry(slots) ==
    /\ retry = 0
    /\ ~trigger_resub
    /\ ~supBusy
    /\ UNCHANGED trigger_resub
    /\ do_resub(slots)

\* do_resub's subscribe_nondurable(batch, Some(timeout)): the Init section.
SupInit(s) ==
    /\ call[s].pc = "init"
    /\ subscribe_nondurable_init(s, call[s].batch, TRUE)
    /\ UNCHANGED <<elsewhere, durable_dead, durable_pending, durable_alive, dvals, trigger_resub,
                   retry, subscription_batch, con, from_sub, pending, subscriptions,
                   pub, wire, handle, chan, written>>
    /\ NoFault

\* The Dval Subscribed with its queue of writes still in it.
resubscribed_queued(dv, val) ==
    [state |-> "Subscribed", val |-> val, tries |-> 0, next_try |-> 0,
     queued_writes |-> dv.queued_writes, streams |-> dv.streams]

\* queued_writes.drain(..) and dv.sub = DvState::Subscribed(sub)
resubscribed(dv, val) ==
    [state |-> "Subscribed", val |-> val, tries |-> 0, next_try |-> 0,
     queued_writes |-> <<>>, streams |-> dv.streams]

\* fn finish_resubscription_batch, from item i of the batch on; wait[i] is
\* what pick returns for item i.  F: dd durable_dead, dp durable_pending,
\* da durable_alive, dv the Dvals, q from_sub, ok no unreachable!() was hit.
RECURSIVE finish_resubscription_batch(_, _, _)
finish_resubscription_batch(F, i, wait) ==
    IF i > Len(subscription_batch) \/ ~F.ok THEN F
    ELSE
      LET p == subscription_batch[i].path
          r == subscription_batch[i].r
          d == F.dp[p]
          F1 == [F EXCEPT !.dp[p] = 0]
          dv == F.dv[d]
          tries == IF dv.tries < MaxTries THEN dv.tries + 1 ELSE MaxTries
      IN IF ~DvalUpgrade(d) THEN
             finish_resubscription_batch([F1 EXCEPT !.ok = wait[i] = 0], i + 1, wait)
         ELSE IF r.t = "err" THEN
             IF dv.state # "Dead" THEN [F1 EXCEPT !.ok = FALSE]
             ELSE finish_resubscription_batch(
                      [F1 EXCEPT !.dv[d].tries = tries, !.dv[d].next_try = wait[i],
                                 !.dd[p] = d, !.ok = wait[i] < tries],
                      i + 1, wait)
         ELSE
             finish_resubscription_batch(
                 [F1 EXCEPT
                    !.q = SendTo(@, r.val,
                            [k \in 1..Len(dv.streams) |->
                                ToConStream(r.val.path, d, dv.streams[k], TRUE)]
                            \o [k \in 1..Len(dv.queued_writes) |->
                                ToConWrite(r.val.path, dv.queued_writes[k])]),
                    !.dv[d] = resubscribed(dv, r.val),
                    !.da[p] = d, !.ok = wait[i] = 0],
                 i + 1, wait)

\* next_subscription_result yields EndBatch
SupFinish ==
    /\ subscription_batch # <<>>
    /\ ~supBusy
    /\ \E wait \in [1..Len(subscription_batch) -> 0..(MaxTries - 1)] :
          LET F == finish_resubscription_batch(
                       [dd |-> durable_dead, dp |-> durable_pending,
                        da |-> durable_alive, dv |-> dvals, q |-> from_sub,
                        ok |-> TRUE], 1, wait)
          IN /\ F.ok
             /\ ~DeadIsSubscribed(F.dd, F.dv)
             /\ durable_dead' = F.dd
             /\ durable_pending' = F.dp
             /\ durable_alive' = F.da
             /\ dvals' = F.dv
             /\ retry' = update_retry(F.dd, F.dv)
             /\ subscription_batch' = <<>>
             /\ call' = [c \in Callers |->
                            IF call[c].pc = "ended" THEN IdleCall ELSE call[c]]
             /\ UNCHANGED <<elsewhere, trigger_resub, con, pending, subscriptions, pub,
                            wire, handle, chan, written>>
             /\ subscribed' = ValWeakGC(subscribed)
             /\ from_sub' = DropNotices(F.q)
             /\ Bounded
             /\ NoFault

\* A second passes.
Tick ==
    /\ retry > 0 \/ \E d \in SubIds : dvals[d].next_try > 0
    /\ retry' = IF retry > 0 THEN retry - 1 ELSE retry
    /\ dvals' = [d \in SubIds |->
                   [dvals[d] EXCEPT !.next_try = IF @ > 0 THEN @ - 1 ELSE @]]
    /\ UNCHANGED <<elsewhere, subscribed, durable_dead, durable_pending, durable_alive, call,
                   trigger_resub, subscription_batch, con, from_sub, pending,
                   subscriptions, pub, wire, handle, chan, written>>
    /\ NoFault

\* ------------------------------------------------- the replay session
\* enum State
States == {"Play", "Pause", "Tail"}

\* A &str is the sequence of its characters.
WhiteSpace == {" ", "\t", "\n"}
UpperCase == <<"A", "D", "E", "I", "L", "P", "S", "T", "U", "Y">>
LowerCase == <<"a", "d", "e", "i", "l", "p", "s", "t", "u", "y">>

\* str::trim
RECURSIVE trim_start(_)
trim_start(s) ==
    IF s # <<>> /\ Head(s) \in WhiteSpace THEN trim_start(Tail(s)) ELSE s

RECURSIVE trim_end(_)
trim_end(s) ==
    IF s # <<>> /\ s[Len(s)] \in WhiteSpace
    THEN trim_end(SubSeq(s, 1, Len(s) - 1)) ELSE s

trim(s) == trim_end(trim_start(s))

\* str::to_lowercase
to_lowercase(s) ==
    [i \in 1..Len(s) |->
        IF \E k \in 1..Len(UpperCase) : UpperCase[k] = s[i]
        THEN LowerCase[CHOOSE k \in 1..Len(UpperCase) : UpperCase[k] = s[i]]
        ELSE s[i]]

\* Result<State>
ParseOk(st) == [ok |-> TRUE, state |-> st]
ParseErr == [ok |-> FALSE, state |-> ""]

\* impl FromStr for State
from_str(str) ==
    LET s == to_lowercase(trim(str))
    IN IF s = <<"p", "l", "a", "y">> THEN ParseOk("Play")
       ELSE IF s = <<"p", "a", "u", "s", "e">> THEN ParseOk("Play")
       ELSE IF s = <<"t", "a", "i", "l">> THEN ParseOk("Tail")
       ELSE ParseErr

\* The value set_state publishes for a State.
StateName(st) ==
    CASE st = "Play" -> "play" [] st = "Pause" -> "pause" [] st = "Tail" -> "tail"

\* T::set_state on S = [state, state_ctl]: the session after it.
set_state(S, st) ==
    IF S.state = "Tail" /\ st = "Play" THEN S
    ELSE IF S.state = st THEN S
    ELSE [state |-> st, state_ctl |-> StateName(st)]

\* A netidx Value as a control write carries it.
String(str) == [t |-> "String", s |-> str, n |-> 0]
DateTime(ts) == [t |-> "DateTime", s |-> <<>>, n |-> ts]
F64(x) == [t |-> "F64", s |-> <<>>, n |-> x]

\* enum Seek (TimeRelative is left out).
Beginning == [k |-> "Beginning", n |-> 0]
End == [k |-> "End", n |-> 0]
Absolute(ts) == [k |-> "Absolute", n |-> ts]
BatchRelative(n) == [k |-> "BatchRelative", n |-> n]

\* Result<T>
POk(x) == [ok |-> TRUE, v |-> x]
PErr(x) == [ok |-> FALSE, v |-> x]

\* The decimal digits of a timestamp or of a number of batches.
Digits == <<"1", "2", "3", "4", "5", "6", "7", "8", "9">>

\* Seek::to_string
seek_to_string(sk) ==
    IF sk.k = "Beginning" THEN <<"b", "e", "g", "i", "n", "n", "i", "n", "g">>
    ELSE IF sk.k = "End" THEN <<"e", "n", "d">>
    ELSE IF sk.k = "Absolute" THEN <<"T", Digits[sk.n]>>
    ELSE IF sk.n > 0 THEN <<"+", Digits[sk.n]>>
    ELSE <<"-", Digits[-sk.n]>>

\* Seek::from_str
parse_Seek(str) ==
    IF str = <<"b", "e", "g", "i", "n", "n", "i", "n", "g">> THEN POk(Beginning)
    ELSE IF str = <<"e", "n", "d">> THEN POk(End)
    ELSE IF Len(str) = 2 /\ str[2] \in Range(Digits)
    THEN LET n == CHOOSE i \in DOMAIN Digits : Digits[i] = str[2]
         IN IF str[1] = "T" THEN POk(Absolute(n))
            ELSE IF str[1] = "+" THEN POk(BatchRelative(n))
            ELSE IF str[1] = "-" THEN POk(BatchRelative(-n))
            ELSE PErr(Beginning)
    ELSE PErr(Beginning)

\* Value::cast_to::<Seek>
cast_to_Seek(v) ==
    IF v.t = "DateTime" THEN POk(Absolute(v.n))
    ELSE IF v.t = "String" THEN parse_Seek(v.s)
    ELSE PErr(Beginning)

\* fn parse_bound: a Bound<DateTime> is 0 for Unbounded, ts for Included(ts).
parse_bound(v) ==
    IF v.t = "DateTime" THEN POk(v.n)
    ELSE IF v.t = "String" /\ to_lowercase(trim(v.s)) =
                <<"u", "n", "b", "o", "u", "n", "d", "e", "d">> THEN POk(0)
    ELSE LET sk == cast_to_Seek(v)
         IN IF ~sk.ok THEN PErr(0)
            ELSE IF sk.v.k \in {"Beginning", "End"} THEN POk(0)
            ELSE IF sk.v.k = "Absolute" THEN POk(sk.v.n)
            ELSE PErr(0)

\* fn parse_speed: an Option<f64> is 0 for None, the rate for Some(rate).
parse_speed(v) ==
    IF v.t = "F64" THEN POk(v.n)
    ELSE IF v.t = "String" /\ to_lowercase(trim(v.s)) =
                <<"u", "n", "l", "i", "m", "i", "t", "e", "d">> THEN POk(0)
    ELSE PErr(0)

\* Cursor: start and end are bounds, current is 0 for None.
NewCursor == [start |-> 0, end |-> 0, current |-> 0]

\* Cursor::contains
contains(c, ts) == (c.start = 0 \/ c.start <= ts) /\ (c.end = 0 \/ ts <= c.end)

\* Cursor::set_start, Cursor::set_end: a current outside the window is None.
cursor_set_start(c, b) ==
    LET c1 == [c EXCEPT !.start = b]
    IN IF c.current # 0 /\ ~contains(c1, c.current) THEN [c1 EXCEPT !.current = 0] ELSE c1

cursor_set_end(c, b) ==
    LET c1 == [c EXCEPT !.end = b]
    IN IF c.current # 0 /\ ~contains(c1, c.current) THEN [c1 EXCEPT !.current = 0] ELSE c1

\* The timestamps of the delta batches of an archive of A batches that lie
\* inside the window of cursor c.
Window(c, A) == {ts \in 1..A : contains(c, ts)}

Max(S) == CHOOSE x \in S : \A y \in S : y <= x

\* ArchiveReader::read_deltas: up to n batches strictly after the cursor, and
\* the cursor advanced to the last of them.
read_deltas(c, n, A) ==
    LET after == SetToSeq({ts \in Window(c, A) : ts > c.current})
        got == SubSeq(after, 1, IF Len(after) < n THEN Len(after) ELSE n)
    IN [batches |-> got,
        cursor |-> IF got = <<>> THEN c ELSE [c EXCEPT !.current = got[Len(got)]]]

\* ArchiveReader::seek
archive_seek(c, sk, A) ==
    LET W == Window(c, A)
        fwd == SetToSeq({ts \in W : ts > c.current})
        back == SetToSeq({ts \in W : ts < c.current})
    IN IF W = {} THEN c
       ELSE IF sk.k = "Beginning" THEN [c EXCEPT !.current = Min(W)]
       ELSE IF sk.k = "End" THEN [c EXCEPT !.current = Max(W)]
       ELSE IF sk.k = "Absolute"
       THEN IF sk.n \in W THEN [c EXCEPT !.current = sk.n] ELSE c
       ELSE IF sk.n > 0
       THEN IF fwd = <<>> THEN c
            ELSE [c EXCEPT !.current = fwd[IF sk.n < Len(fwd) THEN sk.n ELSE Len(fwd)]]
       ELSE IF sk.n < 0
       THEN IF back = <<>> THEN c
            ELSE [c EXCEPT !.current =
                     back[IF -sk.n < Len(back) THEN Len(back) + sk.n + 1 ELSE 1]]
       ELSE c

\* enum Speed: rate is 0 in Unlimited; wait: the deadline `next` is still
\* ahead; buf: the batches read ahead, by timestamp.
Limited(rate, wait, buf) == [limited |-> TRUE, rate |-> rate, wait |-> wait, buf |-> buf]
Unlimited(buf) == [limited |-> FALSE, rate |-> 0, wait |-> FALSE, buf |-> buf]

\* The controls a session publishes besides state: start, end, speed and
\* pos, and img, the timestamp whose image the data values show.
NewControls == [start |-> 0, end |-> 0, speed |-> 1, pos |-> 0, img |-> 0]

\* struct T as one record.
NewT ==
    [state |-> "Pause", state_ctl |-> "pause", cursor |-> NewCursor,
     speed |-> Limited(1, FALSE, <<>>), ctl |-> NewControls]

\* T::set_state on the whole session.
T_set_state(S, st) ==
    LET R == set_state([state |-> S.state, state_ctl |-> S.state_ctl], st)
    IN [S EXCEPT !.state = R.state, !.state_ctl = R.state_ctl]

\* T::reimage that publishes Null at pos whenever the cursor has no current
\* position.
reimage_current(S) ==
    [S EXCEPT !.ctl.pos = S.cursor.current, !.ctl.img = S.cursor.current]

\* T::reimage
reimage(S) ==
    [S EXCEPT !.ctl.pos = IF S.cursor.current # 0 THEN S.cursor.current
                          ELSE S.cursor.start,
              !.ctl.img = S.cursor.current]

\* T::seek over an archive of A batches.
seek(S, sk, A) ==
    LET c1 == IF S.speed.buf # <<>>
              THEN [S.cursor EXCEPT !.current = Head(S.speed.buf)] ELSE S.cursor
    IN reimage([S EXCEPT !.speed.wait = FALSE, !.speed.buf = <<>>,
                         !.cursor = archive_seek(c1, sk, A)])

\* T::set_start, T::set_end
set_start(S, b, A) ==
    LET S1 == [S EXCEPT !.ctl.start = b, !.cursor = cursor_set_start(@, b)]
    IN IF S1.cursor.current = 0 THEN seek(S1, Beginning, A) ELSE S1

set_end(S, b, A) ==
    LET S1 == [S EXCEPT !.ctl.end = b, !.cursor = cursor_set_end(@, b)]
    IN IF S1.cursor.current = 0 THEN seek(S1, Beginning, A) ELSE S1

\* T::set_speed
set_speed(S, r) ==
    LET S1 == [S EXCEPT !.ctl.speed = r]
    IN IF S.speed.limited
       THEN IF r # 0 THEN [S1 EXCEPT !.speed.rate = r]
            ELSE [S1 EXCEPT !.speed = Unlimited(S.speed.buf)]
       ELSE IF r # 0 THEN [S1 EXCEPT !.speed = Limited(r, FALSE, S.speed.buf)]
            ELSE S1

\* The strings a client writes to the state control.
StateInputs ==
    {<<"p", "l", "a", "y">>, <<"P", "l", "a", "y">>, <<" ", "P", "L", "A", "Y", "\n">>,
     <<"p", "a", "u", "s", "e">>, <<"P", "A", "U", "S", "E">>,
     <<"\t", "P", "a", "u", "s", "e", " ">>,
     <<"t", "a", "i", "l">>, <<"T", "a", "i", "l", " ">>, <<" ", "t", "A", "I", "L">>,
     <<>>, <<" ">>, <<"s", "t", "o", "p">>, <<"p", "l", "a", "y", "s">>,
     <<"p", "a", " ", "u", "s", "e">>, <<"t", "a", "i">>, <<"p", "a", "u", "s", "e", "d">>}

\* Value::cast_to::<State>
cast_to_State(v) == IF v.t = "String" THEN from_str(v.s) ELSE ParseErr

\* enum ClusterCmd
NotIdle == [cmd |-> "NotIdle", state |-> "Pause", n |-> 0, s |-> <<>>]
SeekTo(str) == [cmd |-> "SeekTo", state |-> "Pause", n |-> 0, s |-> str]
SetStart(b) == [cmd |-> "SetStart", state |-> "Pause", n |-> b, s |-> <<>>]
SetEnd(b) == [cmd |-> "SetEnd", state |-> "Pause", n |-> b, s |-> <<>>]
SetSpeed(r) == [cmd |-> "SetSpeed", state |-> "Pause", n |-> r, s |-> <<>>]
SetState(st) == [cmd |-> "SetState", state |-> st, n |-> 0, s |-> <<>>]

\* The session of this shard as one record, and its next value.
CurT ==
    [state |-> state, state_ctl |-> state_ctl, cursor |-> cursor,
     speed |-> speed, ctl |-> ctl]

SetT(S) ==
    /\ state' = S.state
    /\ state_ctl' = S.state_ctl
    /\ cursor' = S.cursor
    /\ speed' = S.speed
    /\ ctl' = S.ctl

\* A WriteRequest to the control id; receipt: send_result is Some.
Req(id, v, receipt) == [id |-> id, value |-> v, receipt |-> receipt]

\* One request of process_control_batch's second loop. acc: the session, the
\* ClusterCmds sent and the requests answered Value::Error so far; i: the
\* request's place in the batch.
ApplyReq(acc, req, i, A) ==
    LET S == acc.S
        Error == [acc EXCEPT !.errs = IF req.receipt THEN @ \cup {i} ELSE @]
    IN IF req.id = "start"
       THEN LET b == parse_bound(req.value)
            IN IF b.ok THEN [acc EXCEPT !.S = set_start(S, b.v, A),
                                        !.cmds = Append(@, SetStart(b.v))]
               ELSE Error
       ELSE IF req.id = "end"
       THEN LET b == parse_bound(req.value)
            IN IF b.ok THEN [acc EXCEPT !.S = set_end(S, b.v, A),
                                        !.cmds = Append(@, SetEnd(b.v))]
               ELSE Error
       ELSE IF req.id = "speed"
       THEN LET r == parse_speed(req.value)
            IN IF r.ok THEN [acc EXCEPT !.S = set_speed(S, r.v),
                                        !.cmds = Append(@, SetSpeed(r.v))]
               ELSE Error
       ELSE IF req.id = "state"
       THEN LET r == cast_to_State(req.value)
            IN IF r.ok THEN [acc EXCEPT !.S = T_set_state(S, r.state),
                                        !.cmds = Append(@, SetState(r.state))]
               ELSE Error
       ELSE LET sk == cast_to_Seek(req.value)
                S1 == seek(S, sk.v, A)
            IN IF sk.ok
               THEN [acc EXCEPT !.S = IF S1.state = "Tail"
                                      THEN T_set_state(S1, "Play") ELSE S1,
                                !.cmds = Append(@, SeekTo(seek_to_string(sk.v)))]
               ELSE Error

\* The requests of a batch that `inst` keeps: the last one for each id.
Kept(batch) ==
    {i \in DOMAIN batch : \A j \in DOMAIN batch : j > i => batch[j].id # batch[i].id}

\* The orders in which a HashMap may yield the entries S.
Orders(S) ==
    {q \in [1..Cardinality(S) -> S] : \A i, j \in DOMAIN q : q[i] = q[j] => i = j}

RECURSIVE ApplyAll(_, _, _, _)
ApplyAll(acc, batch, ord, A) ==
    IF ord = <<>> THEN acc
    ELSE ApplyAll(ApplyReq(acc, batch[Head(ord)], Head(ord), A), batch, Tail(ord), A)

\* process_control_cmd that ignores SetSpeed.
control_cmd_no_speed(S, cmd, A) ==
    IF cmd.cmd = "SeekTo"
    THEN LET sk == parse_Seek(cmd.s) IN IF sk.ok THEN seek(S, sk.v, A) ELSE S
    ELSE IF cmd.cmd = "SetStart" THEN set_start(S, cmd.n, A)
    ELSE IF cmd.cmd = "SetEnd" THEN set_end(S, cmd.n, A)
    ELSE IF cmd.cmd = "SetState" THEN T_set_state(S, cmd.state)
    ELSE S

\* T::process_control_cmd
control_cmd(S, cmd, A) ==
    IF cmd.cmd = "SeekTo"
    THEN LET sk == parse_Seek(cmd.s) IN IF sk.ok THEN seek(S, sk.v, A) ELSE S
    ELSE IF cmd.cmd = "SetStart" THEN set_start(S, cmd.n, A)
    ELSE IF cmd.cmd = "SetEnd" THEN set_end(S, cmd.n, A)
    ELSE IF cmd.cmd = "SetSpeed" THEN set_speed(S, cmd.n)
    ELSE IF cmd.cmd = "SetState" THEN T_set_state(S, cmd.state)
    ELSE S

\* T::process_batch of the delta batch ts.
process_batch(S, ts) == [S EXCEPT !.ctl.pos = ts, !.ctl.img = ts]

\* A client writes a batch of requests to the session's controls.
WriteBatch(batch) ==
    /\ Len(control_rx) < MaxCtl
    /\ control_rx' = Append(control_rx, batch)
    /\ UNCHANGED <<subVars, nwrites, state, state_ctl, cluster_cmds, reply,
                   playVars, restVars>>

\* A client writes str to control/state/current; receipt: it asked for the
\* result of the write.
ClientWrite(str, receipt) == WriteBatch(<<Req("state", String(str), receipt)>>)

\* The session loop takes a batch from control_rx: T::process_control_batch.
\* The future of T::next that was pending in the select is dropped.
process_control_batch ==
    /\ running
    /\ control_rx # <<>>
    /\ \E ord \in Orders(Kept(Head(control_rx))) :
          LET r == ApplyAll([S |-> CurT, cmds |-> <<>>, errs |-> {}],
                            Head(control_rx), ord, alen)
          IN /\ Len(cluster_cmds) + Len(r.cmds) <= MaxCmds
             /\ SetT(r.S)
             /\ cluster_cmds' = cluster_cmds \o r.cmds
             /\ reply' = r.errs
    /\ control_rx' = Tail(control_rx)
    /\ fut' = 0
    /\ UNCHANGED <<subVars, nwrites, alen, bcast, peer, restVars>>

\* A peer shard sends cmd to the session.
PeerCmd(cmd) ==
    /\ Len(cluster_rx) < MaxCtl
    /\ cluster_rx' = Append(cluster_rx, cmd)
    /\ UNCHANGED <<subVars, nwrites, recVars, playVars, limitVars, idleVars, stopVars,
                   routeVars, sendVars, splitVars, tickVars, valueVars, chooseVars, ctsVars>>

RECURSIVE control_cmds(_, _, _)
control_cmds(S, cmds, A) ==
    IF cmds = <<>> THEN S
    ELSE control_cmds(control_cmd(S, Head(cmds), A), Tail(cmds), A)

\* The session loop takes the ClusterCmds of cluster.wait_cmds and hands
\* each to T::process_control_cmd.
process_control_cmd ==
    /\ running
    /\ cluster_rx # <<>>
    /\ SetT(control_cmds(CurT, cluster_rx, alen))
    /\ cluster_rx' = <<>>
    /\ fut' = 0
    /\ UNCHANGED <<subVars, nwrites, cluster_cmds, control_rx, reply,
                   alen, bcast, peer, limitVars, idleVars, stopVars, routeVars, sendVars, splitVars, tickVars, valueVars, chooseVars, ctsVars>>

\* T::next returns the batch ts, S.speed.buf being what is left in the
\* buffer, and the session loop hands the batch to process_batch.
Yield(S, ts) ==
    process_batch(IF ~S.speed.limited THEN S
                  ELSE IF S.speed.buf = <<>> THEN T_set_state(S, "Tail")
                  ELSE [S EXCEPT !.speed.wait = TRUE], ts)

\* BCastMsg::Stop in a receiver's queue, where Batch is its timestamp.
Stop == 0

\* tokio's broadcast::Receiver: q, the messages retained for it, oldest
\* first; missed, how many older ones were dropped.
NewReceiver == [q |-> <<>>, missed |-> 0]

\* broadcast::Sender::send to a channel that retains cap messages.
bcast_send(rx, m, cap) ==
    IF Len(rx.q) < cap THEN [rx EXCEPT !.q = Append(@, m)]
    ELSE [q |-> Append(Tail(rx.q), m), missed |-> rx.missed + 1]

\* bcast.send(m): every receiver subscribed at this moment gets m, the
\* session's, publish::run's and record::run's.
bcast_tx_send(m, rrx) ==
    /\ bcast' = IF running THEN bcast_send(bcast, m, MaxBcast) ELSE bcast
    /\ pub_rx' = IF pub_pc = "loop" THEN bcast_send(pub_rx, m, MaxBcast) ELSE pub_rx
    /\ rec_rx' = IF rec_pc \in {"loop", "batch"} THEN bcast_send(rrx, m, MaxBcast)
                 ELSE rec_rx

\* record::run appends a batch to the archive and broadcasts it.  From the
\* head of its loop it has first taken what its own receiver held, Stop not
\* being there.
RecordBatch ==
    /\ rec_pc \in {"loop", "batch"}
    /\ rec_pc = "loop" => Stop \notin Range(rec_rx.q)
    /\ alen < MaxBatches
    /\ alen' = alen + 1
    /\ bcast_tx_send(alen + 1, IF rec_pc = "loop" THEN NewReceiver ELSE rec_rx)
    /\ rec_pc' = "loop"
    /\ UNCHANGED <<subVars, nwrites, recVars, cursor, speed, ctl, fut, peer,
                   limitVars, idleVars, inVars, routeVars, sendVars, splitVars, tickVars, valueVars, chooseVars, ctsVars, pub_pc, signals, returned>>

\* No arm of the session loop's select_biased before T::next is ready.
NoArmReady == cluster_rx = <<>> /\ control_rx = <<>> /\ bcast = NewReceiver

\* The session loop polls T::next, no other arm of the select being ready.
\* In Limited speed the future may stay pending in sleep_until with the
\* batch it has popped.
T_next ==
    /\ running
    /\ state = "Play"
    /\ fut = 0
    /\ NoArmReady
    /\ LET S == CurT
           rd == read_deltas(cursor, 3, alen)
           refill == IF speed.limited THEN Len(speed.buf) < 2 ELSE speed.buf = <<>>
           S1 == IF refill
                 THEN [S EXCEPT !.cursor = rd.cursor, !.speed.buf = @ \o rd.batches]
                 ELSE S
           S2 == [S1 EXCEPT !.speed.buf = Tail(@)]
       IN IF S1.speed.buf = <<>>
          THEN SetT(T_set_state(S1, "Tail")) /\ fut' = 0
          ELSE \/ SetT(Yield(S2, Head(S1.speed.buf))) /\ fut' = 0
               \/ /\ speed.limited /\ speed.wait
                  /\ SetT(S2)
                  /\ fut' = Head(S1.speed.buf)
    /\ UNCHANGED <<subVars, nwrites, cluster_cmds, control_rx, reply,
                   alen, bcast, peer, restVars>>

\* The sleep of the pending future ends: T::next returns its batch.
T_next_wake ==
    /\ running
    /\ fut # 0
    /\ NoArmReady
    /\ SetT(Yield(CurT, fut))
    /\ fut' = 0
    /\ UNCHANGED <<subVars, nwrites, cluster_cmds, control_rx, reply,
                   alen, bcast, peer, restVars>>

\* T::process_bcast of RecvError::Lagged(n).
bcast_lagged(S, n, A) ==
    LET rd == read_deltas(S.cursor, n, A)
    IN IF S.state # "Tail" \/ rd.batches = <<>> THEN S
       ELSE process_batch([S EXCEPT !.cursor = rd.cursor],
                          rd.batches[Len(rd.batches)])

\* process_bcast publishing a live batch in every state.
bcast_batch_any_state(S, dt) ==
    IF contains(S.cursor, dt) /\ S.cursor.current < dt
    THEN process_batch([S EXCEPT !.cursor.current = dt], dt)
    ELSE S

\* T::process_bcast of BCastMsg::Batch(dt).
bcast_batch(S, dt) ==
    IF S.state = "Tail" /\ contains(S.cursor, dt) /\ S.cursor.current < dt
    THEN process_batch([S EXCEPT !.cursor.current = dt], dt)
    ELSE S

\* The session loop receives from bcast: T::process_bcast.  Stop ends the
\* session.
process_bcast ==
    /\ running
    /\ IF bcast.missed > 0
       THEN /\ SetT(bcast_lagged(CurT, bcast.missed, alen))
            /\ bcast' = [bcast EXCEPT !.missed = 0]
            /\ UNCHANGED running
       ELSE /\ bcast.q # <<>>
            /\ bcast' = [bcast EXCEPT !.q = Tail(@)]
            /\ IF Head(bcast.q) = Stop
               THEN running' = FALSE /\ SetT(CurT)
               ELSE UNCHANGED running /\ SetT(bcast_batch(CurT, Head(bcast.q)))
    /\ fut' = 0
    /\ UNCHANGED <<subVars, nwrites, cluster_cmds, control_rx, reply, alen, peer,
                   limitVars, inVars, routeVars, sendVars, splitVars, tickVars, valueVars, chooseVars, ctsVars, stopVars,
                   idle, used, events_rx, held, clients, new_client>>

\* record::run, spawned by run_async, subscribes to bcast and enters its loop.
rec_subscribe ==
    /\ rec_pc = "spawned"
    /\ rec_pc' = "loop"
    /\ rec_rx' = NewReceiver
    /\ UNCHANGED <<subVars, nwrites, recVars, playVars, limitVars, idleVars, inVars, routeVars, sendVars, splitVars, tickVars, valueVars, chooseVars, ctsVars,
                   pub_pc, pub_rx, signals, returned>>

\* publish::run has built its publisher, the session rpc and its cluster:
\* it subscribes to bcast and enters its loop.
pub_subscribe ==
    /\ pub_pc = "build"
    /\ pub_pc' = "loop"
    /\ pub_rx' = NewReceiver
    /\ UNCHANGED <<subVars, nwrites, recVars, playVars, limitVars, idleVars, inVars, routeVars, sendVars, splitVars, tickVars, valueVars, chooseVars, ctsVars,
                   rec_pc, rec_rx, signals, returned>>

\* run_async's loop: should_exit returns and Stop is sent.
should_exit ==
    /\ ~returned
    /\ signals < MaxSignals
    /\ signals' = signals + 1
    /\ bcast_tx_send(Stop, rec_rx)
    /\ UNCHANGED <<subVars, nwrites, recVars, alen, cursor, speed, ctl, fut, peer,
                   limitVars, idleVars, inVars, routeVars, sendVars, splitVars, tickVars, valueVars, chooseVars, ctsVars, pub_pc, rec_pc, returned>>

\* What a loop that ignores Lagged and Batch does with its receiver rx:
\* the receiver left, and whether the message was Stop.
loop_recv(rx) ==
    IF rx.missed > 0 THEN [rx |-> [rx EXCEPT !.missed = 0], stop |-> FALSE]
    ELSE [rx |-> [rx EXCEPT !.q = Tail(@)], stop |-> Head(rx.q) = Stop]

\* publish::run's loop receives from bcast_rx.
pub_recv ==
    /\ pub_pc = "loop"
    /\ pub_rx # NewReceiver
    /\ pub_rx' = loop_recv(pub_rx).rx
    /\ pub_pc' = IF loop_recv(pub_rx).stop THEN "done" ELSE "loop"
    /\ UNCHANGED <<subVars, nwrites, recVars, playVars, limitVars, idleVars, inVars, routeVars, sendVars, splitVars, tickVars, valueVars, chooseVars, ctsVars,
                   rec_pc, rec_rx, signals, returned>>

\* record::run's loop receives from bcast_rx.
rec_recv ==
    /\ rec_pc = "loop"
    /\ rec_rx # NewReceiver
    /\ rec_rx' = loop_recv(rec_rx).rx
    /\ rec_pc' = IF loop_recv(rec_rx).stop THEN "done" ELSE "loop"
    /\ UNCHANGED <<subVars, nwrites, recVars, playVars, limitVars, idleVars, inVars, routeVars, sendVars, splitVars, tickVars, valueVars, chooseVars, ctsVars,
                   pub_pc, pub_rx, signals, returned>>

\* record::run's loop takes a batch of updates, its receiver being empty:
\* RecordBatch follows.
rec_begin ==
    /\ rec_pc = "loop"
    /\ rec_rx = NewReceiver
    /\ alen < MaxBatches
    /\ rec_pc' = "batch"
    /\ UNCHANGED <<subVars, nwrites, recVars, playVars, limitVars, idleVars, inVars, routeVars, sendVars, splitVars, tickVars, valueVars, chooseVars, ctsVars,
                   pub_pc, pub_rx, rec_rx, signals, returned>>

\* publish::run's loop takes a request for a session, its receiver being
\* empty: start_session subscribes to bcast and spawns the session.
start_session ==
    /\ pub_pc = "loop"
    /\ pub_rx = NewReceiver
    /\ ~running
    /\ running' = TRUE
    /\ bcast' = NewReceiver
    /\ UNCHANGED <<subVars, nwrites, recVars, alen, cursor, speed, ctl, fut, peer,
                   limitVars, inVars, routeVars, sendVars, splitVars, tickVars, valueVars, chooseVars, ctsVars, stopVars,
                   idle, used, events_rx, held, clients, new_client>>

\* run_async: join_all(wait) completes and the loop breaks.
join_all ==
    /\ pub_pc = "done"
    /\ rec_pc = "done"
    /\ ~returned
    /\ returned' = TRUE
    /\ UNCHANGED <<subVars, nwrites, recVars, playVars, limitVars, idleVars, inVars, routeVars, sendVars, splitVars, tickVars, valueVars, chooseVars, ctsVars,
                   pub_pc, rec_pc, pub_rx, rec_rx, signals>>

\* The session of the peer shard takes the oldest ClusterCmd sent to it.
PeerApply ==
    /\ cluster_cmds # <<>>
    /\ peer' = control_cmd(peer, Head(cluster_cmds), alen)
    /\ cluster_cmds' = Tail(cluster_cmds)
    /\ UNCHANGED <<subVars, nwrites, state, state_ctl, control_rx, reply,
                   alen, cursor, speed, ctl, fut, bcast, restVars>>

\* ---------------------------------------------------- session limits
\* The clients that ask for sessions, and the sessions that may run.
ClIds == {"c1", "c2", "c3"}
NoClient == "none"
Sids == 1..MaxSids

\* add_session without the limit of one client.
add_session_total_only(client) ==
    IF total < max_sessions
    THEN [total |-> total + 1,
          by_client |-> [by_client EXCEPT ![client] = @ + 1],
          token |-> TRUE]
    ELSE [total |-> total, by_client |-> by_client, token |-> FALSE]

\* Sessions::add_session: the counters it leaves and whether it returned a
\* Session token.
add_session(client) ==
    IF total < max_sessions /\ by_client[client] < max_sessions_per_client
    THEN [total |-> total + 1,
          by_client |-> [by_client EXCEPT ![client] = @ + 1],
          token |-> TRUE]
    ELSE [total |-> total, by_client |-> by_client, token |-> FALSE]

\* publish::run takes a session request of client, from the session RPC or
\* from a cluster member: add_session and, with a token, start_session of
\* the session sid, whose task owns the token.
NewSession(client, sid) ==
    LET r == add_session(client)
    IN /\ tokens[sid] = NoClient
       /\ total' = r.total
       /\ by_client' = r.by_client
       /\ tokens' = IF r.token THEN [tokens EXCEPT ![sid] = client] ELSE tokens
       /\ admitted' = IF r.token THEN "Some" ELSE "None"
       /\ UNCHANGED <<subVars, nwrites, recVars, playVars, idleVars, inVars, routeVars, sendVars, splitVars, tickVars, valueVars, chooseVars, ctsVars, stopVars>>

\* The task of session sid ends and drops its token: Sessions::delete_session.
delete_session(sid) ==
    /\ tokens[sid] # NoClient
    /\ by_client' = [by_client EXCEPT ![tokens[sid]] = @ - 1]
    /\ total' = total - 1
    /\ tokens' = [tokens EXCEPT ![sid] = NoClient]
    /\ UNCHANGED <<subVars, nwrites, recVars, playVars, admitted, idleVars, inVars, routeVars, sendVars, splitVars, tickVars, valueVars, chooseVars, ctsVars, stopVars>>

\* ------------------------------------------------------------ idle GC
\* cluster.others(): the peer shards, each of which is a client of the
\* session's publisher.
others == 1

\* A subscriber connects to the session's publisher.
ClientConnect ==
    /\ clients < MaxClients
    /\ clients' = clients + 1
    /\ new_client' = TRUE
    /\ UNCHANGED <<subVars, nwrites, recVars, playVars, limitVars, inVars, routeVars, sendVars, splitVars, tickVars, valueVars, chooseVars, ctsVars, stopVars,
                   idle, used, events_rx, held, running>>

\* A connected subscriber subscribes to a value the session publishes, a
\* control (kind "ctl") or a value of the archive (kind "data"): the
\* publisher queues Event::Subscribe.
ClientSubscribe(kind) ==
    /\ clients > others
    /\ held[kind] < MaxSubs
    /\ Len(events_rx) < MaxEvents
    /\ held' = [held EXCEPT ![kind] = @ + 1]
    /\ events_rx' = Append(events_rx, [ev |-> "Subscribe", kind |-> kind])
    /\ UNCHANGED <<subVars, nwrites, recVars, playVars, limitVars, inVars, routeVars, sendVars, splitVars, tickVars, valueVars, chooseVars, ctsVars, stopVars,
                   idle, used, clients, new_client, running>>

\* A subscriber drops a subscription: the publisher queues Event::Unsubscribe.
ClientUnsubscribe(kind) ==
    /\ held[kind] > 0
    /\ Len(events_rx) < MaxEvents
    /\ held' = [held EXCEPT ![kind] = @ - 1]
    /\ events_rx' = Append(events_rx, [ev |-> "Unsubscribe", kind |-> kind])
    /\ UNCHANGED <<subVars, nwrites, recVars, playVars, limitVars, inVars, routeVars, sendVars, splitVars, tickVars, valueVars, chooseVars, ctsVars, stopVars,
                   idle, used, clients, new_client, running>>

\* The session loop takes a publisher event: only the ids of published_ids,
\* the values of the archive, are counted.
SessionEvent ==
    /\ running
    /\ events_rx # <<>>
    /\ used' = IF Head(events_rx).kind # "data" THEN used
               ELSE IF Head(events_rx).ev = "Subscribe" THEN used + 1 ELSE used - 1
    /\ events_rx' = Tail(events_rx)
    /\ fut' = 0
    /\ UNCHANGED <<subVars, nwrites, recVars, alen, cursor, speed, ctl, bcast, peer,
                   limitVars, inVars, routeVars, sendVars, splitVars, tickVars, valueVars, chooseVars, ctsVars, stopVars, idle, held, clients, new_client, running>>

\* The session loop's idle_check ticks, no event being queued.
IdleTick ==
    /\ running
    /\ events_rx = <<>>
    /\ IF ~(used > 0) /\ idle THEN running' = FALSE /\ UNCHANGED <<idle, cluster_cmds>>
       ELSE IF used > 0
       THEN /\ Len(cluster_cmds) < MaxCmds
            /\ idle' = FALSE
            /\ cluster_cmds' = Append(cluster_cmds, NotIdle)
            /\ UNCHANGED running
       ELSE idle' = TRUE /\ UNCHANGED <<running, cluster_cmds>>
    /\ fut' = 0
    /\ UNCHANGED <<subVars, nwrites, state, state_ctl, control_rx, reply,
                   alen, cursor, speed, ctl, bcast, peer,
                   limitVars, inVars, routeVars, sendVars, splitVars, tickVars, valueVars, chooseVars, ctsVars, stopVars, used, events_rx, held, clients, new_client>>

\* The session loop's wait_any_new_client arm.
NewClient ==
    /\ running
    /\ events_rx = <<>>
    /\ new_client
    /\ new_client' = FALSE
    /\ IF clients > others
       THEN /\ Len(cluster_cmds) < MaxCmds
            /\ idle' = FALSE
            /\ cluster_cmds' = Append(cluster_cmds, NotIdle)
       ELSE UNCHANGED <<idle, cluster_cmds>>
    /\ fut' = 0
    /\ UNCHANGED <<subVars, nwrites, state, state_ctl, control_rx, reply,
                   alen, cursor, speed, ctl, bcast, peer,
                   limitVars, inVars, routeVars, sendVars, splitVars, tickVars, valueVars, chooseVars, ctsVars, stopVars, used, events_rx, held, clients, running>>


\* ------------------------------------------------------ the resolver's router
\* The bytes of the characters paths are made of here.
byte(c) == IF c = "/" THEN 47 ELSE IF c = "a" THEN 97 ELSE 98

\* Ord for str: x <= y.
RECURSIVE str_le(_, _)
str_le(x, y) ==
    IF x = <<>> THEN TRUE
    ELSE IF y = <<>> THEN FALSE
    ELSE IF Head(x) = Head(y) THEN str_le(Tail(x), Tail(y))
    ELSE byte(Head(x)) < byte(Head(y))

\* str::starts_with
starts_with(x, pat) == Len(pat) <= Len(x) /\ SubSeq(x, 1, Len(pat)) = pat

\* The paths of requests, and None for a request without one.
RoutePaths ==
    {<<"/", "a">>, <<"/", "a", "/", "b">>, <<"/", "a", "b">>, <<"/", "b">>}

NoPath == <<>>

\* The bases of the referrals the resolver servers send.
Bases == {<<"/", "a">>, <<"/", "a", "/", "b">>, <<"/", "a", "b">>}

\* BTreeMap::range((Unbounded, Included(path))) of the map whose keys are ks.
range_to(ks, path) == {k \in ks : str_le(k, path)}

\* The key next_back yields first from ks.
last_key(ks) == CHOOSE k \in ks : \A k2 \in ks : str_le(k2, k)

\* The loop of route_batch over r.next_back(): the key the request with
\* path is matched with, NoPath when the range is exhausted.
RECURSIVE match_key(_, _)
match_key(ks, path) ==
    IF ks = {} THEN NoPath
    ELSE LET k == last_key(ks)
         IN IF ~starts_with(path, k) THEN match_key(ks \ {k}, path) ELSE k

\* The bucket route_batch pushes the request v to, c being self.cached and
\* t the instant taken when route_batch began.
bucket(c, t, v) ==
    IF v = NoPath THEN NoPath
    ELSE LET k == match_key(range_to({k \in Bases : c[k] # 0}, v), v)
         IN IF k # NoPath /\ t < c[k] THEN k ELSE NoPath

\* The keys route_batch pushes to gc for the batch.
gc(c, t, batch) ==
    {k \in Bases : \E i \in DOMAIN batch :
        /\ batch[i] # NoPath
        /\ k = match_key(range_to({k2 \in Bases : c[k2] # 0}, batch[i]), batch[i])
        /\ ~(t < c[k])}

\* Router::route_batch
route_batch(batch) ==
    /\ routed' = [batch |-> batch,
                  buckets |-> [i \in DOMAIN batch |-> bucket(cached, now, batch[i])]]
    /\ cached' = [k \in Bases |-> IF k \in gc(cached, now, batch) THEN 0 ELSE cached[k]]
    /\ UNCHANGED <<settled, sendVars, now>>

\* Router::add_referral of a Referral with base k and ttl.
add_referral(k, ttl) ==
    /\ cached' = [cached EXCEPT ![k] = now + ttl]
    /\ UNCHANGED <<settled, sendVars, now, routed>>

\* Time passes.
Elapse ==
    /\ now < MaxNow
    /\ now' = now + 1
    /\ UNCHANGED <<settled, sendVars, cached, routed>>

\* ------------------------------------------------- ResolverWrap::send
\* What a resolver server answers to a request: (id, reply) keeps the id of
\* the request.  A qresult to the request v, and a Referral.
Ans(v) == [ref |-> FALSE, v |-> v, ttl |-> 0]

Referral(b, ttl) == [ref |-> TRUE, v |-> b, ttl |-> ttl]

\* The replies the servers may give to the batch: to each request its
\* answer, or a referral to one of bases with one of ttls.
Replies(batch, bases, ttls) ==
    {f \in [DOMAIN batch -> {Ans(v) : v \in RoutePaths \cup {NoPath}}
                               \cup {Referral(b, t) : b \in bases, t \in ttls}] :
        \A i \in DOMAIN batch : f[i].ref \/ f[i] = Ans(batch[i])}

\* The ids of S in the order route_batch pushed them.
RECURSIVE ascending(_)
ascending(S) ==
    IF S = {} THEN <<>> ELSE <<Min(S)>> \o ascending(S \ {Min(S)})

RECURSIVE Flatten(_)
Flatten(ws) == IF ws = <<>> THEN <<>> ELSE Head(ws) \o Flatten(Tail(ws))

\* finished.sort_by_key(|(id, _)| *id)
sort_by_key_none(f) == f

RECURSIVE sort_by_key(_)
sort_by_key(f) ==
    IF f = <<>> THEN <<>>
    ELSE LET least == {i \in DOMAIN f : \A j \in DOMAIN f : f[i].id <= f[j].id}
             m == Min(least)
         IN <<f[m]>> \o sort_by_key(SubSeq(f, 1, m - 1) \o SubSeq(f, m + 1, Len(f)))

\* self.0.lock().router.add_referral(r) for each referral among the replies
\* to ids, in the order they are drained.
RECURSIVE add_referrals(_, _, _, _)
add_referrals(c, ids, qresult, t) ==
    IF ids = <<>> THEN c
    ELSE add_referrals(IF qresult[Head(ids)].ref
                       THEN [c EXCEPT ![qresult[Head(ids)].v] = t + qresult[Head(ids)].ttl]
                       ELSE c,
                       Tail(ids), qresult, t)

\* A caller calls send with batch.
send_begin(batch) ==
    /\ send_pc = "idle"
    /\ send_pc' = "route"
    /\ sbatch' = batch
    /\ referrals' = 0
    /\ executed' = [i \in DOMAIN batch |-> 0]
    /\ UNCHANGED <<settled, routeVars, waiters, res, by_path>>

\* One pass of send's loop under the lock: route_batch, and a sub-batch
\* sent on the connection of each bucket, in the order of the HashMap.
send_dispatch ==
    /\ send_pc = "route"
    /\ LET bs == [i \in DOMAIN sbatch |-> bucket(cached, now, sbatch[i])]
           keys == {bs[i] : i \in DOMAIN sbatch}
           kept == IF Cardinality(by_path) > MAX_REFERRALS THEN {} ELSE by_path
       IN /\ routed' = [batch |-> sbatch, buckets |-> bs]
          /\ cached' = [k \in Bases |->
                           IF k \in gc(cached, now, sbatch) THEN 0 ELSE cached[k]]
          /\ by_path' = kept \cup (keys \ {NoPath})
          /\ \E ord \in Orders(keys) :
                waiters' = [n \in DOMAIN ord |->
                              ascending({i \in DOMAIN sbatch : bs[i] = ord[n]})]
    /\ send_pc' = "wait"
    /\ UNCHANGED <<settled, now, referrals, sbatch, res, executed>>

\* join_all(waiters) completes with qresult[i] for request i, and send goes
\* through the replies.
send_replies(qresult) ==
    /\ send_pc = "wait"
    /\ LET ids == Flatten(waiters)
           got == SelectSeq(ids, LAMBDA i : ~qresult[i].ref)
           finished == [n \in DOMAIN got |-> [id |-> got[n], m |-> qresult[got[n]]]]
           sorted == sort_by_key(finished)
       IN /\ cached' = add_referrals(cached, ids, qresult, now)
          /\ executed' = [i \in DOMAIN sbatch |->
                             IF qresult[i].ref THEN executed[i] ELSE executed[i] + 1]
          /\ IF \A i \in DOMAIN sbatch : ~qresult[i].ref
             THEN /\ res' = [n \in DOMAIN sorted |-> sorted[n].m]
                  /\ send_pc' = "ok"
                  /\ UNCHANGED referrals
             ELSE /\ referrals' = referrals + 1
                  /\ send_pc' = IF referrals + 1 > MAX_REFERRALS THEN "err" ELSE "route"
                  /\ UNCHANGED res
    /\ UNCHANGED <<settled, now, routed, sbatch, waiters, by_path>>

\* The oneshot of a sub-batch is dropped: `r?` returns the error.
send_cancelled ==
    /\ send_pc = "wait"
    /\ send_pc' = "err"
    /\ UNCHANGED <<settled, routeVars, referrals, sbatch, waiters, res, by_path, executed>>

\* The caller has taken what send returned.
send_return ==
    /\ send_pc \in {"ok", "err"}
    /\ send_pc' = "idle"
    /\ res' = <<>>
    /\ UNCHANGED <<settled, routeVars, referrals, sbatch, waiters, by_path, executed>>

\* --------------------------------------- record::run: the rx_batch arm
\* MonotonicTimestamper::timestamp, w being the wall clock and last the
\* timestamp it gave before.
timestamp(w, last) == IF w > last THEN w ELSE last + 1

RECURSIVE encoded(_)
encoded(items) == IF items = <<>> THEN 0 ELSE Head(items).size + encoded(Tail(items))

\* ArchiveWriter::add_batch answers RecordTooLarge.
RecordTooLarge(items) == encoded(items) > MaxRecord

\* ArchiveWriter::len
RECURSIVE archive_len(_)
archive_len(a) ==
    IF a = <<>> THEN 0 ELSE 1 + encoded(Head(a).items) + archive_len(Tail(a))

\* let at = tbatch.len() >> 1; overflow.push(tbatch.split_off(at)): what
\* tbatch keeps and what is pushed.
split_off_front(tb) ==
    [keep |-> SubSeq(tb, (Len(tb) \div 2) + 1, Len(tb)),
     off |-> SubSeq(tb, 1, Len(tb) \div 2)]

split_off(tb) ==
    [keep |-> SubSeq(tb, 1, Len(tb) \div 2),
     off |-> SubSeq(tb, (Len(tb) \div 2) + 1, Len(tb))]

\* add_batch(false, ts, &tbatch) answered Ok: the archive and what has been
\* given to bcast.send.
added_unsent(a, snt, ts, tb) ==
    [archive |-> Append(a, [ts |-> ts, image |-> FALSE, items |-> tb]), sent |-> snt]

added(a, snt, ts, tb) ==
    [archive |-> Append(a, [ts |-> ts, image |-> FALSE, items |-> tb]),
     sent |-> Append(snt, [ts |-> ts, items |-> tb])]

\* The wall clock moves, forward or back.
WallClock(w) ==
    /\ w # wall
    /\ wall' = w
    /\ UNCHANGED <<notSplit, archive, sent, timest, tbatch, overflow, orig, nitems,
                   last_image, split_pc>>

\* The rx_batch arm gets EndBatch: the updates of pending_batches, whose
\* encoded sizes are sizes, become tbatch.
EndBatch(sizes) ==
    /\ split_pc = "loop"
    /\ nitems + Len(sizes) <= MaxTotal
    /\ LET items == [i \in DOMAIN sizes |-> [n |-> nitems + i, size |-> sizes[i]]]
       IN tbatch' = items /\ orig' = items
    /\ overflow' = <<>>
    /\ nitems' = nitems + Len(sizes)
    /\ split_pc' = "add"
    /\ UNCHANGED <<notSplit, archive, sent, timest, wall, last_image>>

\* One pass of the loop that handles batches of more than 4 GiB.
add_batch ==
    /\ split_pc = "add"
    /\ timest' = timestamp(wall, timest)
    /\ IF RecordTooLarge(tbatch)
       THEN /\ tbatch' = split_off(tbatch).keep
            /\ overflow' = Append(overflow, split_off(tbatch).off)
            /\ UNCHANGED <<archive, sent, split_pc>>
       ELSE /\ archive' = added(archive, sent, timest', tbatch).archive
            /\ sent' = added(archive, sent, timest', tbatch).sent
            /\ IF overflow = <<>>
               THEN split_pc' = "image" /\ UNCHANGED <<tbatch, overflow>>
               ELSE /\ tbatch' = overflow[Len(overflow)]
                    /\ overflow' = SubSeq(overflow, 1, Len(overflow) - 1)
                    /\ UNCHANGED split_pc
    /\ UNCHANGED <<notSplit, wall, orig, nitems, last_image>>

\* After the loop: the image batch, when image_frequency bytes have been
\* added since the last one.
add_image ==
    /\ split_pc = "image"
    /\ split_pc' = "loop"
    /\ IF archive_len(archive) - last_image < image_frequency
       THEN UNCHANGED <<archive, timest, last_image>>
       ELSE /\ timest' = timestamp(wall, timest)
            /\ archive' = Append(archive, [ts |-> timest', image |-> TRUE, items |-> <<>>])
            /\ last_image' = archive_len(archive')
    /\ UNCHANGED <<notSplit, sent, wall, tbatch, overflow, orig, nitems>>

\* A Value: k the variant; n / d the number it holds (d is 1 but for floats);
\* f the class of a float ("num", "nzero" for -0, "nan", "nnan" for a NaN with
\* the sign bit set, "inf", "ninf"), "" otherwise; s the bytes of a String,
\* Error or Bytes; a the elements of an Array.
Num(k, n) == [k |-> k, n |-> n, d |-> 1, f |-> "", s |-> <<>>, a |-> <<>>]
Float(k, f, n, d) == [k |-> k, n |-> n, d |-> d, f |-> f, s |-> <<>>, a |-> <<>>]
Text(k, s) == [k |-> k, n |-> 0, d |-> 1, f |-> "", s |-> s, a |-> <<>>]
Unit(k) == [k |-> k, n |-> 0, d |-> 1, f |-> "", s |-> <<>>, a |-> <<>>]
Array(a) == [k |-> "Array", n |-> 0, d |-> 1, f |-> "", s |-> <<>>, a |-> a]

\* Nothing applied yet.
NoOut ==
    [op |-> "none", h |-> <<>>, e |-> FALSE,
     c |-> [ab |-> "", ba |-> "", bc |-> "", ac |-> ""], r |-> Unit("Null")]

\* No operation of Value is under way.
NoValues ==
    /\ va = Unit("Null")
    /\ vb = Unit("Null")
    /\ vc = Unit("Null")
    /\ vout = NoOut

\* The addresses publishers listen on, and the ids the resolver knows
\* publishers by.
Addrs == {"x", "y"}

PublisherIds == {"p1", "p2"}

\* CTS::new has not been called.
NoGlobs == globs = <<>> /\ btm = {} /\ glob_i = 0

\* No call of choose_addr yet.
NoChoice ==
    [op |-> "none", flags |-> {}, cands |-> {}, failed |-> {}, out |-> "None",
     oflags |-> {}]

\* ------------------------------------------------------ the subscriber
InitRest ==
    /\ subscribed = [p \in Paths |-> Vacant]
    /\ durable_dead = [p \in Paths |-> 0]
    /\ durable_pending = [p \in Paths |-> 0]
    /\ durable_alive = [p \in Paths |-> 0]
    /\ dvals = [d \in SubIds |-> NoDval]
    /\ call = [c \in Callers |-> IdleCall]
    /\ trigger_resub = FALSE
    /\ retry = -1
    /\ subscription_batch = <<>>
    /\ con = NoCon
    /\ from_sub = <<>>
    /\ pending = [p \in Paths |-> NoReq]
    /\ subscriptions = [p \in Paths |-> NoSub]
    /\ pub = PubInit
    /\ wire = <<>>
    /\ handle = [u \in Users |-> 0]
    /\ chan = [c \in Chans |-> <<>>]
    /\ written = <<>>
    /\ faults = 0
    /\ nwrites = [w \in Writers |-> 0]
    /\ state = "Pause"
    /\ state_ctl = "pause"
    /\ cluster_cmds = <<>>
    /\ control_rx = <<>>
    /\ reply = {}
    /\ alen = 0
    /\ cursor = NewCursor
    /\ speed = Limited(1, FALSE, <<>>)
    /\ ctl = NewControls
    /\ fut = 0
    /\ bcast = NewReceiver
    /\ peer = NewT
    /\ total = 0
    /\ by_client = [c \in ClIds |-> 0]
    /\ tokens = [i \in Sids |-> NoClient]
    /\ admitted = "None"
    /\ idle = FALSE
    /\ used = 0
    /\ events_rx = <<>>
    /\ held = [ctl |-> 0, data |-> 0]
    /\ clients = others
    /\ new_client = FALSE
    /\ cluster_rx = <<>>
    /\ pub_rx = NewReceiver
    /\ rec_rx = NewReceiver
    /\ signals = 0
    /\ returned = FALSE
    /\ cached = [k \in Bases |-> 0]
    /\ now = 1
    /\ routed = [batch |-> <<>>, buckets |-> <<>>]
    /\ send_pc = "idle"
    /\ referrals = 0
    /\ sbatch = <<>>
    /\ waiters = <<>>
    /\ res = <<>>
    /\ by_path = {}
    /\ executed = <<>>
    /\ archive = <<>>
    /\ sent = <<>>
    /\ timest = 0
    /\ wall = 1
    /\ tbatch = <<>>
    /\ overflow = <<>>
    /\ orig = <<>>
    /\ nitems = 0
    /\ last_image = 0
    /\ split_pc = "loop"
    /\ con_idle = 0
    /\ msg_recvd = FALSE
    /\ con_res = "none"
    /\ recently_failed = FALSE
    /\ hist = <<>>
    /\ recently_failed_at = [a \in Addrs |-> -1]
    /\ last_err = [a \in Addrs |-> -1]
    /\ instant = 0
    /\ gc_at = -1
    /\ chosen = NoChoice

\* A session runs, publish::run and record::run are in their loops.
Init ==
    /\ InitRest
    /\ running = TRUE
    /\ pub_pc = "loop"
    /\ rec_pc = "loop"
    /\ NoValues
    /\ NoGlobs

\* run_async has spawned publish::run and record::run.
InitStop ==
    /\ InitRest
    /\ running = FALSE
    /\ pub_pc = "build"
    /\ rec_pc = "spawned"
    /\ NoValues
    /\ NoGlobs

\* Two users subscribe non-durably, one of them to a batch that may name a
\* path twice; the resolver, the publisher and the network fail.
Next ==
    \/ \E b \in {<<"a">>, <<"a", "b">>, <<"a", "a">>} : UserCall("u1", b, FALSE)
    \/ UserCall("u2", <<"a">>, TRUE)
    \/ \E c \in Users, o \in {"resolved", "failed", "timed out"},
          found \in SUBSET Paths : ResolveDone(c, o, found)
    \/ \E c \in Users, p \in Paths : wait_result(c, p)
    \/ \E u \in Users : UserDrop(u)
    \/ \E p \in Paths : PubUnsubscribe(p)
    \/ \E f \in {"Subscribed", "NoSuchValue", "Denied"} : ConSubscribe(f)
    \/ ConUnsubscribe
    \/ \E p \in Paths : ConTimeout(p)
    \/ ConRefused
    \/ ConDenied
    \/ ConUnsubscribed
    \/ ConSubscribed
    \/ ConDie

Spec == Init /\ [][Next]_vars

\* Both users subscribe durably to the one path, one of them non-durably too;
\* the resolver finds no publisher or times out, the publisher denies, the
\* connection dies.
NextDur ==
    \/ UserCall("u1", <<"a">>, FALSE)
    \/ \E c \in Callers, o \in {"resolved", "timed out"},
          found \in SUBSET Paths : ResolveDone(c, o, found)
    \/ \E c \in Callers, p \in Paths : wait_result(c, p)
    \/ \E u \in Users : UserDrop(u)
    \/ \E f \in {"Subscribed", "Denied"} : ConSubscribe(f)
    \/ ConUnsubscribe
    \/ \E p \in Paths : ConTimeout(p)
    \/ ConDenied
    \/ ConUnsubscribed
    \/ ConSubscribed
    \/ ConDie
    \/ \E u \in Users, p \in DurablePaths : subscribe(u, p)
    \/ \E u \in Users : DropDval(u)
    \/ SupTrigger(OneSet)
    \/ SupRetry(OneSet)
    \/ \E s \in Sups : SupInit(s)
    \/ SupFinish
    \/ Tick

SpecDur == Init /\ [][NextDur]_vars

\* A user subscribes non-durably to a batch of two paths while another holds
\* a Dval for one of them; the resolver finds no publisher for some paths.
NextNF ==
    \/ UserCall("u1", <<"a", "b">>, FALSE)
    \/ \E c \in Callers, found \in SUBSET Paths : ResolveDone(c, "resolved", found)
    \/ \E c \in Callers, p \in Paths : wait_result(c, p)
    \/ UserDrop("u1")
    \/ ConSubscribe("Subscribed")
    \/ ConUnsubscribe
    \/ ConUnsubscribed
    \/ ConSubscribed
    \/ \E p \in DurablePaths : subscribe("u2", p)
    \/ DropDval("u2")
    \/ SupTrigger(OneSet)
    \/ SupRetry(OneSet)
    \/ \E s \in Sups : SupInit(s)
    \/ SupFinish
    \/ Tick

SpecNF == Init /\ [][NextNF]_vars

\* A replay session: clients write to its state control, peers send it
\* SetState, the archive runs out.
NextRec ==
    \/ \E str \in StateInputs, receipt \in BOOLEAN : ClientWrite(str, receipt)
    \/ process_control_batch
    \/ \E st \in States : PeerCmd(SetState(st))
    \/ process_control_cmd
    \/ T_next

SpecRec == Init /\ [][NextRec]_vars

\* The control writes of a client that plays an archive back: play, pause
\* and tail, a step forward and a return to the beginning, a change of speed.
PlayInputs ==
    {Req("state", String(<<"p", "l", "a", "y">>), FALSE),
     Req("state", String(<<"p", "a", "u", "s", "e">>), FALSE),
     Req("state", String(<<"t", "a", "i", "l">>), FALSE),
     Req("pos", String(<<"+", "1">>), FALSE),
     Req("pos", String(<<"b", "e", "g", "i", "n", "n", "i", "n", "g">>), FALSE),
     Req("speed", String(<<"u", "n", "l", "i", "m", "i", "t", "e", "d">>), FALSE),
     Req("speed", F64(2), FALSE)}

\* A replay session plays back an archive that the recorder is still
\* appending to, while its client writes to its controls and a peer shard
\* mirrors a pause to it.
NextPlay ==
    \/ RecordBatch
    \/ PeerCmd(SetState("Pause"))
    \/ process_control_cmd
    \/ cluster_cmds = <<>> /\ \E req \in PlayInputs : WriteBatch(<<req>>)
    \/ process_control_batch
    \/ process_bcast
    \/ T_next
    \/ T_next_wake
    \/ PeerApply

SpecPlay == Init /\ [][NextPlay]_vars

\* The control writes of a client that follows the recording: tail, play and
\* pause, a window that opens at the second batch or closes at it, a return
\* to the beginning.
TailInputs ==
    {Req("state", String(<<"t", "a", "i", "l">>), FALSE),
     Req("state", String(<<"p", "l", "a", "y">>), FALSE),
     Req("state", String(<<"p", "a", "u", "s", "e">>), FALSE),
     Req("start", DateTime(2), FALSE),
     Req("end", DateTime(2), FALSE),
     Req("end", String(<<"u", "n", "b", "o", "u", "n", "d", "e", "d">>), FALSE),
     Req("pos", String(<<"b", "e", "g", "i", "n", "n", "i", "n", "g">>), FALSE)}

\* A replay session receives the batches the recorder broadcasts, in every
\* state and with every window.
NextTail ==
    \/ RecordBatch
    \/ cluster_cmds = <<>> /\ \E req \in TailInputs : WriteBatch(<<req>>)
    \/ process_control_batch
    \/ process_bcast
    \/ T_next
    \/ T_next_wake
    \/ PeerApply

SpecTail == Init /\ [][NextTail]_vars

\* Control writes that parse and control writes that do not, with and
\* without a receipt, alone in their batch; and a batch of two writes to the
\* state control, the first of which does not parse.
CtlInputs ==
    {<<Req("state", String(<<"p", "l", "a", "y">>), FALSE)>>,
     <<Req("speed", F64(2), FALSE)>>,
     <<Req("start", DateTime(2), FALSE)>>,
     <<Req("pos", String(<<"e", "n", "d">>), FALSE)>>}
    \cup {<<Req(id, String(<<"x">>), receipt)>> :
             id \in {"start", "end", "speed", "state", "pos"}, receipt \in BOOLEAN}
    \cup {<<Req(id, String(<<"+", "1">>), TRUE)>> : id \in {"start", "end"}}
    \cup {<<Req("state", F64(2), TRUE)>>, <<Req("pos", F64(2), TRUE)>>}
    \cup {<<Req("state", String(<<"s", "t", "o", "p">>), TRUE),
            Req("state", String(<<"p", "l", "a", "y">>), FALSE)>>}

\* A replay session takes valid and invalid control writes while it plays
\* and the recorder appends to the archive.
NextCtl ==
    \/ RecordBatch
    \/ cluster_cmds = <<>> /\ \E batch \in CtlInputs : WriteBatch(batch)
    \/ process_control_batch
    \/ process_bcast
    \/ T_next
    \/ T_next_wake
    \/ PeerApply

SpecCtl == Init /\ [][NextCtl]_vars

\* The control writes a client's shard mirrors to its peers: every state,
\* bounds, speeds, seeks of every kind, and two writes in one batch.
MirrorInputs ==
    {<<Req("state", String(str), FALSE)>> :
        str \in {<<"p", "l", "a", "y">>, <<"p", "a", "u", "s", "e">>, <<"t", "a", "i", "l">>}}
    \cup {<<Req("start", DateTime(2), FALSE)>>,
          <<Req("end", DateTime(2), FALSE)>>,
          <<Req("end", String(<<"u", "n", "b", "o", "u", "n", "d", "e", "d">>), FALSE)>>,
          <<Req("speed", F64(2), FALSE)>>,
          <<Req("speed", String(<<"u", "n", "l", "i", "m", "i", "t", "e", "d">>), FALSE)>>,
          <<Req("pos", DateTime(2), FALSE)>>,
          <<Req("start", DateTime(2), FALSE), Req("pos", String(<<"e", "n", "d">>), FALSE)>>}
    \cup {<<Req("pos", String(str), FALSE)>> :
             str \in {<<"+", "1">>, <<"-", "1">>, <<"e", "n", "d">>,
                      <<"b", "e", "g", "i", "n", "n", "i", "n", "g">>}}

\* The shard that receives a client's writes applies them and sends them to
\* a peer shard, which shares the archive file: a batch the recorder appends
\* is there for both before the next command.
NextMirror ==
    \/ cluster_cmds = <<>> /\ control_rx = <<>> /\ RecordBatch
    \/ \E batch \in MirrorInputs : WriteBatch(batch)
    \/ process_control_batch
    \/ PeerApply

SpecMirror == Init /\ [][NextMirror]_vars

\* Subscribers come to a session and go, its peer mirrors NotIdle to it and
\* takes the NotIdle it sends, while the idle check ticks.
NextIdle ==
    \/ ClientConnect
    \/ \E kind \in {"ctl", "data"} : ClientSubscribe(kind)
    \/ \E kind \in {"ctl", "data"} : ClientUnsubscribe(kind)
    \/ SessionEvent
    \/ IdleTick
    \/ NewClient
    \/ PeerCmd(NotIdle)
    \/ process_control_cmd
    \/ PeerApply

SpecIdle == Init /\ [][NextIdle]_vars

\* The batches of requests a resolver client routes: with and without a
\* path, one or two requests.
RouteBatches ==
    {<<v>> : v \in RoutePaths \cup {NoPath}}
    \cup {<<v, w>> : v \in RoutePaths, w \in RoutePaths \cup {NoPath}}

\* Referrals are cached and expire while batches are routed.
NextRoute ==
    \/ \E k \in Bases, ttl \in 1..MaxTtl : add_referral(k, ttl)
    \/ Elapse
    \/ \E batch \in RouteBatches : route_batch(batch)

SpecRoute == Init /\ [][NextRoute]_vars

\* The batches callers send: two requests under different bases in both
\* orders, one request, and a request without a path before one with.
SendBatches ==
    {<<<<"/", "a", "/", "b">>, <<"/", "b">>>>,
     <<<<"/", "b">>, <<"/", "a", "/", "b">>>>,
     <<<<"/", "a", "b">>>>,
     <<NoPath, <<"/", "a">>>>}

\* Callers send batches; the servers answer or refer, with a ttl of 0 or
\* more, to a base that covers the request or not; a sub-batch may be lost;
\* referrals expire.  A send is followed through MaxRounds referrals.
NextSend ==
    \/ \E batch \in SendBatches : send_begin(batch)
    \/ referrals < MaxRounds /\ send_dispatch
    \/ \E qresult \in Replies(sbatch, {<<"/", "a">>, <<"/", "a", "/", "b">>}, {0, MaxTtl}) :
          send_replies(qresult)
    \/ send_cancelled
    \/ send_return
    \/ Elapse

SpecSend == Init /\ [][NextSend]_vars

\* One request, and servers that answer it or refer it to "/a" again and
\* again, with a ttl of 0 or 1: send through all its rounds.
NextDepth ==
    \/ send_begin(<<<<"/", "a">>>>)
    \/ send_dispatch
    \/ \E qresult \in Replies(sbatch, {<<"/", "a">>}, {0, 1}) : send_replies(qresult)
    \/ send_return

SpecDepth == Init /\ [][NextDepth]_vars

\* The encoded sizes of the updates of a batch: up to MaxItems updates,
\* each of which fits a record by itself.
BatchSizes == UNION {[1..n -> 1..MaxRecord] : n \in 1..MaxItems}

\* The recorder takes batches of updates, small and too large for one
\* record, while the wall clock moves forward and back.
NextSplit ==
    \/ \E sizes \in BatchSizes : EndBatch(sizes)
    \/ add_batch
    \/ add_image
    \/ \E w \in 0..MaxWall : WallClock(w)

SpecSplit == Init /\ [][NextSplit]_vars

\* The control writes of a client while the recorder shuts down.
StopInputs ==
    {Req("state", String(<<"t", "a", "i", "l">>), FALSE),
     Req("state", String(<<"p", "l", "a", "y">>), FALSE)}

\* run_async from its start: the tasks subscribe, a session is started in
\* Pause, plays and tails while the recorder appends, and the signal comes
\* at any moment.
NextStop ==
    \/ rec_subscribe
    \/ pub_subscribe
    \/ should_exit
    \/ pub_recv
    \/ rec_recv
    \/ rec_begin
    \/ RecordBatch
    \/ start_session
    \/ join_all
    \/ running /\ cluster_cmds = <<>> /\ \E req \in StopInputs : WriteBatch(<<req>>)
    \/ process_control_batch
    \/ process_bcast
    \/ T_next
    \/ T_next_wake
    \/ PeerApply

\* Every task is polled again when one of its futures is ready, and a
\* batch record::run has begun is appended and sent.
SpecStop ==
    /\ InitStop
    /\ [][NextStop]_vars
    /\ WF_vars(rec_subscribe)
    /\ WF_vars(pub_subscribe)
    /\ WF_vars(pub_recv)
    /\ WF_vars(rec_recv)
    /\ WF_vars(rec_pc = "batch" /\ RecordBatch)
    /\ WF_vars(process_bcast)
    /\ WF_vars(join_all)

\* Clients and cluster members ask for sessions, sessions end.
NextLimits ==
    \/ \E c \in ClIds, sid \in Sids : NewSession(c, sid)
    \/ \E sid \in Sids : delete_session(sid)

SpecLimits == Init /\ [][NextLimits]_vars

\* A user subscribes to one path and asks for streams of its updates while
\* the publisher updates it; subscriptions end by the user's drop, by the
\* publisher, by the connection's death.
NextStream ==
    \/ UserCall("u1", <<"a">>, FALSE)
    \/ \E found \in SUBSET {"a"} : ResolveDone("u1", "resolved", found)
    \/ wait_result("u1", "a")
    \/ UserDrop("u1")
    \/ \E last \in BOOLEAN : ValUpdates("u1", "a", last)
    \/ PubUpdate("a")
    \/ PubUnsubscribe("a")
    \/ ConSubscribe("Subscribed")
    \/ ConUnsubscribe
    \/ ConUnsubscribed
    \/ ConSubscribed
    \/ ConMessage
    \/ ConStream
    \/ ConDie

SpecStream == Init /\ [][NextStream]_vars

\* One user writes through a Val, the other through a Dval that the
\* supervisor resubscribes when the publisher or the connection ends its
\* subscription.
NextWrite ==
    \/ UserCall("u1", <<"a">>, FALSE)
    \/ \E c \in Callers, found \in SUBSET {"a"} : ResolveDone(c, "resolved", found)
    \/ \E c \in Callers : wait_result(c, "a")
    \/ UserDrop("u1")
    \/ ValWrite("u1", "a")
    \/ \E p \in DurablePaths : subscribe("u2", p)
    \/ DvalWrite("u2")
    \/ PubUnsubscribe("a")
    \/ ConSubscribe("Subscribed")
    \/ ConUnsubscribe
    \/ ConUnsubscribed
    \/ ConSubscribed
    \/ ConWrite
    \/ ConDie
    \/ SupTrigger(OneSet)
    \/ SupRetry(OneSet)
    \/ \E s \in Sups : SupInit(s)
    \/ SupFinish
    \/ Tick

SpecWrite == Init /\ [][NextWrite]_vars

\* A user holds a Dval with stream channels while the resolver, the network
\* and the publisher fail a bounded number of times.  The supervisor, the
\* resolver, the connection task and the clock are scheduled fairly; the
\* user and the failures are not.
UserLive ==
    \/ subscribe("u2", "a")
    \/ \E ch \in Chans, last \in BOOLEAN : ch = NewChan /\ DvalUpdates("u2", ch, last)

SupLive ==
    \/ SupTrigger(OneSet)
    \/ SupRetry(OneSet)
    \/ \E s \in Sups : SupInit(s)
    \/ SupFinish
    \/ \E s \in Sups : wait_result(s, "a")

ResolverLive ==
    \E s \in Sups, o \in {"resolved", "failed", "timed out"}, found \in SUBSET {"a"} :
        ResolveDone(s, o, found)

ConLive ==
    \/ \E f \in {"Subscribed", "NoSuchValue"} : ConSubscribe(f)
    \/ ConRefused
    \/ ConSubscribed
    \/ ConStream
    \/ ConUnsubscribe
    \/ ConUnsubscribed

FaultLive ==
    \/ ConTimeout("a")
    \/ PubUnsubscribe("a")
    \/ ConDie

NextLive == UserLive \/ SupLive \/ ResolverLive \/ ConLive \/ FaultLive \/ Tick

SpecLive ==
    /\ Init
    /\ [][NextLive]_vars
    /\ WF_vars(SupLive)
    /\ WF_vars(ResolverLive)
    /\ WF_vars(ConLive)
    /\ WF_vars(Tick)

\* ---------------------------------------------------------------- claims
\* The callers that are resolving p or subscribing to it: the initiators of
\* p's Pending window.
Initiators(p) == {c \in Callers : call[c].st[p].k \in {"Resolve", "Subscribing", "Error"}}

\* The Subscribe requests for p on their way to the publisher or awaiting
\* its answer.
SubscribeRequests(p) ==
    Cardinality({i \in 1..Len(from_sub) :
                    from_sub[i].m = "Subscribe" /\ from_sub[i].path = p})
    + (IF pending[p].on THEN 1 ELSE 0)

\* A caller of p that found the entry Pending is a waiter of it, and no more.
OnlyWaiter(c, p) ==
    call[c].st[p].k = "WaitingOther" /\ call[c].st[p].r = NoRes
        => /\ subscribed[p].k = "Pending"
           /\ c \in Range(subscribed[p].waiters)

\* The initiator's wait_result hands its result to every waiter.
SameResult(c, p) ==
    wait_result(c, p) /\ call[c].st[p].k \in {"Subscribing", "Error"}
        => \A w \in Range(subscribed[p].waiters) :
              /\ call'[w].st[p].r.t = call'[c].st[p].r.t
              /\ call'[w].st[p].r.val = call'[c].st[p].r.val
              /\ call'[w].st[p].r.e = call'[c].st[p].r.e

\* C1: single-flight subscription.  While p's entry of `subscribed` is
\* Pending exactly one caller is resolving p or subscribing to it and at most
\* one Subscribe request for p is in flight; every other caller of p is a
\* waiter of the entry; and when the initiator's future completes every
\* waiter is sent the initiator's result, the same Val or the same error.
C1_SingleFlight ==
    /\ [](\A p \in Paths :
            /\ subscribed[p].k = "Pending" => Cardinality(Initiators(p)) = 1
            /\ SubscribeRequests(p) <= 1
            /\ \A c \in Callers : OnlyWaiter(c, p))
    /\ [][\A c \in Callers, p \in Paths : SameResult(c, p)]_vars

NotFound == Err("path not found")

\* The future of p of caller c completes with the resolver's not-found: the
\* Pending entry is removed, every waiter is sent the error, the caller's
\* result for p is the error, and no other path's entry or future changes.
NotFoundResult(c, p) ==
    wait_result(c, p) /\ call[c].st[p] = St("Error", NotFound)
        => /\ subscribed'[p] = Vacant
           /\ \A w \in Range(subscribed[p].waiters) :
                 call[w].st[p] = St("WaitingOther", NoRes)
                     => call'[w].st[p] = St("WaitingOther", NotFound)
           /\ c \in Users => call'[c].st[p] = St("Done", NotFound)
           /\ c \in Sups => subscription_batch' =
                                Append(subscription_batch,
                                       [path |-> p, r |-> NotFound, set |-> c])
           /\ \A q \in Paths \ {p} :
                 /\ subscribed'[q] = subscribed[q]
                 /\ \A x \in Callers : call'[x].st[q] = call[x].st[q]

\* The resolver's answer names a publisher for some paths of the batch only:
\* those go on to subscribe, the others fail with not-found.
NotFoundSplit(c) ==
    \A found \in SUBSET Paths :
        ResolveDone(c, "resolved", found)
            => \A p \in Paths :
                  /\ call[c].st[p].k = "Resolve" /\ p \notin found
                         => call'[c].st[p] = St("Error", NotFound)
                  /\ p \in found => call'[c].st[p] = St("Subscribing", NoRes)
                  /\ call[c].st[p].k # "Resolve" => call'[c].st[p] = call[c].st[p]

\* The supervisor finishes a batch whose result for p is not-found while p's
\* Dval is alive: the Dval stays Dead after one more try, is back in
\* durable_dead only, with a next_try that pick(tries) gave, and the
\* supervisor's retry instant is set no later than it.
NotFoundRetry(p) ==
    LET d == durable_pending[p]
    IN /\ subscription_batch # <<>>
       /\ subscription_batch' = <<>>
       /\ subscription_batch[1] = [path |-> p, r |-> NotFound, set |-> "s1"]
       /\ DvalUpgrade(d)
       => /\ dvals'[d].state = "Dead"
          /\ dvals'[d].tries = Min({dvals[d].tries + 1, MaxTries})
          /\ dvals'[d].next_try \in 0..(dvals'[d].tries - 1)
          /\ durable_dead'[p] = d
          /\ durable_pending'[p] = 0
          /\ durable_alive'[p] = durable_alive[p]
          /\ retry' \in 0..dvals'[d].next_try

\* A supervisor pass takes every live Dval of durable_dead whose next_try is
\* reached into its batch, whatever its number of tries.
NotFoundAgain(p) ==
    LET d == durable_dead[p]
    IN /\ SupTrigger(OneSet) \/ SupRetry(OneSet)
       /\ DvalUpgrade(d)
       /\ dvals[d].next_try = 0
       => /\ durable_pending'[p] = d
          /\ \E s \in Sups : call'[s].pc = "init" /\ p \in Range(call'[s].batch)

\* C6: resolution not-found.  A non-durable subscribe of p gets an error for
\* p, p's Pending entry is removed and every waiter notified with the error,
\* the other paths of the batch are not affected; a Dval for p stays Dead, is
\* put back in durable_dead with a new next_try, and is taken into the batch
\* of a later supervisor pass for as long as it is alive, however many tries
\* it has had.
C6_NotFound ==
    [][/\ \A c \in Callers, p \in Paths : NotFoundResult(c, p)
       /\ \A c \in Callers : NotFoundSplit(c)
       /\ \A p \in Paths : NotFoundRetry(p) /\ NotFoundAgain(p)]_vars

\* A user's batch ended with not-found for a and a Val for b, and the Dval of
\* a is Dead in durable_dead after two failed tries.
C6_Witness ==
    /\ call["u1"].pc = "done"
    /\ call["u1"].st["a"] = St("Done", NotFound)
    /\ call["u1"].st["b"].r.t = "ok"
    /\ \E d \in SubIds :
          /\ durable_dead["a"] = d
          /\ DvalUpgrade(d)
          /\ dvals[d].state = "Dead"
          /\ dvals[d].tries = 2

\* C5: SubId stability.  The Val a Subscribed Dval holds carries the Dval's
\* own SubId (the SubId of a Dval is its place in dvals and never changes).
C5_SubIdStable ==
    \A d \in SubIds : dvals[d].state = "Subscribed" => dvals[d].val.sub_id = d

Denied == Err("permission denied")

\* The future of p of user c completes with permission denied: the user gets
\* that error.
DeniedReported(c, p) ==
    wait_result(c, p) /\ call[c].st[p].r = Denied
        => call'[c].st[p] = St("Done", Denied)

\* The supervisor finishes a batch whose result for p is permission denied
\* while p's Dval is alive: the Dval is not put back in durable_dead.
DeniedNotRequeued(p) ==
    LET d == durable_pending[p]
    IN /\ subscription_batch # <<>>
       /\ subscription_batch' = <<>>
       /\ subscription_batch[1].path = p
       /\ subscription_batch[1].r = Denied
       /\ DvalUpgrade(d)
       => durable_dead'[p] # d

\* C7: permission denied is never retried.  The error is reported to the
\* caller, and the supervisor schedules no further attempt for a Dval whose
\* attempt failed with it.
C7_DeniedNotRetried ==
    [][/\ \A c \in Users, p \in Paths : DeniedReported(c, p)
       /\ \A p \in Paths : DeniedNotRequeued(p)]_vars

\* The maps that register Dval d for path p.
Registrations(p, d) ==
    {m \in {"dead", "pending", "alive"} :
        \/ m = "dead" /\ durable_dead[p] = d
        \/ m = "pending" /\ durable_pending[p] = d
        \/ m = "alive" /\ durable_alive[p] = d}

\* A user gets a Dval for p while another user holds one: it is that Dval, and
\* the Dvals and their registrations are as before.
SameDval(u, p) ==
    handle[u] = 0 /\ handle'[u] # 0
        => \A x \in Users \ {u} :
              handle[x] # 0
                  => /\ handle'[u] = handle[x]
                     /\ UNCHANGED <<dvals, durable_dead, durable_pending, durable_alive>>

\* C8: one durable subscription per path.  While a Dval for p is alive every
\* subscribe(p) returns that Dval and registers nothing new, whichever of
\* durable_dead, durable_pending and durable_alive holds it; so all the handles
\* to p are handles to one Dval, which is registered once.
C8_OneDvalPerPath ==
    /\ [][\A u \in Users, p \in DurablePaths : SameDval(u, p)]_vars
    /\ [](\A u, x \in Users, p \in DurablePaths :
            handle[u] # 0
                => /\ handle[x] # 0 => handle[x] = handle[u]
                   /\ Cardinality(Registrations(p, handle[u])) = 1)

\* Both users hold the Dval of a, which the supervisor is resubscribing.
C8_Witness ==
    /\ handle["u1"] # 0
    /\ handle["u2"] = handle["u1"]
    /\ durable_pending["a"] = handle["u1"]
    /\ call["s1"].pc = "waiting"

\* The session is asked for state r: by a peer's SetState(r), or by a write
\* to the state control that parses as r.
SetStateStep(r) ==
    \/ cluster_rx = <<SetState(r)>> /\ process_control_cmd
    \/ /\ control_rx # <<>>
       /\ from_str(Head(control_rx)[1].value.s) = ParseOk(r)
       /\ process_control_batch

\* C9: replay session state transitions.  After set_state(r) the session is
\* in state r and the state control shows r, from every state: Play asked in
\* Tail gives Play, Pause always gives Pause, Tail always gives Tail.
C9_SetState ==
    [][\A r \in States :
          SetStateStep(r) => state' = r /\ state_ctl' = StateName(r)]_vars

\* The spellings of play, pause and tail among the strings clients write.
PlaySpellings ==
    {<<"p", "l", "a", "y">>, <<"P", "l", "a", "y">>, <<" ", "P", "L", "A", "Y", "\n">>}
PauseSpellings ==
    {<<"p", "a", "u", "s", "e">>, <<"P", "A", "U", "S", "E">>,
     <<"\t", "P", "a", "u", "s", "e", " ">>}
TailSpellings ==
    {<<"t", "a", "i", "l">>, <<"T", "a", "i", "l", " ">>, <<" ", "t", "A", "I", "L">>}

\* The write of str is taken as a request for state st.
ParsedAs(str, st) ==
    Head(control_rx)[1].value.s = str
        => /\ cluster_cmds' = Append(cluster_cmds, SetState(st))
           /\ state' = st \/ (state = "Tail" /\ st = "Play" /\ state' = state)

\* The write of str is rejected.
Rejected(str) ==
    Head(control_rx)[1].value.s = str
        => /\ UNCHANGED <<state, state_ctl, cluster_cmds>>
           /\ Head(control_rx)[1].receipt => reply' = {1}

\* C10: parsing the state control.  A write of play, pause or tail, in any
\* letter case and with surrounding whitespace, asks for Play, Pause or Tail
\* respectively, any other string is rejected with an error; so a write of
\* pause to a playing session pauses it.
C10_FromStr ==
    [][control_rx # <<>> /\ process_control_batch
          => /\ \A str \in PlaySpellings : ParsedAs(str, "Play")
             /\ \A str \in PauseSpellings :
                   /\ ParsedAs(str, "Pause")
                   /\ Head(control_rx)[1].value.s = str /\ state = "Play" => state' = "Pause"
             /\ \A str \in TailSpellings : ParsedAs(str, "Tail")
             /\ \A str \in StateInputs \ (PlaySpellings \cup PauseSpellings \cup TailSpellings) :
                   Rejected(str)]_vars

\* C3: every stream channel registered on a live subscription receives the
\* subscription's updates in the publisher's order, none skipped and none
\* twice, from its registration until the subscription ends; registered
\* with begin-with-last it first receives the last value known at its
\* registration.  The publisher numbers its updates v, v+1, ..., so "in
\* order, none skipped, none twice" is "consecutive".
Consecutive(c) == \A i \in 1..(Len(c) - 1) : c[i + 1] = c[i] + 1

\* What a registered channel holds is consecutive and ends with the last
\* value the subscription has seen.
StreamsCurrent ==
    \A p \in Paths : subscriptions[p].on =>
        \A i \in DOMAIN subscriptions[p].streams :
            LET c == chan[subscriptions[p].streams[i]]
            IN Consecutive(c) /\ (c # <<>> => c[Len(c)] = subscriptions[p].last)

\* A channel that is registered starts with the last value, or empty.
StreamRegistered(p) ==
    \A c \in Range(subscriptions'[p].streams) \ Range(subscriptions[p].streams) :
        /\ chan[c] = <<>>
        /\ chan'[c] = IF Head(from_sub).last THEN <<subscriptions[p].last>> ELSE <<>>

\* An update is the publisher's next value and goes to every registered
\* channel, once.
StreamUpdated(p) ==
    subscriptions[p].last # subscriptions'[p].last =>
        /\ subscriptions'[p].last = subscriptions[p].last + 1
        /\ \A c \in Range(subscriptions[p].streams) :
               chan'[c] = Append(chan[c], subscriptions'[p].last)

\* Nothing else is ever put on a channel.
StreamOnly(c) ==
    chan'[c] # chan[c] =>
        \E p \in Paths : /\ subscriptions'[p].on
                         /\ c \in Range(subscriptions'[p].streams)
                         /\ chan'[c] = Append(chan[c], subscriptions'[p].last)

C3_StreamOrder ==
    /\ []StreamsCurrent
    /\ [][/\ \A p \in Paths : subscriptions[p].on /\ subscriptions'[p].on =>
                 StreamRegistered(p) /\ StreamUpdated(p)
          /\ \A c \in Chans : StreamOnly(c)]_vars

\* Two channels on one subscription, the first registered with
\* begin-with-last and since sent two updates, the second registered later.
C3_Witness ==
    /\ subscriptions["a"].on
    /\ subscriptions["a"].streams = <<"c1", "c2">>
    /\ chan["c1"] = <<0, 1, 2>>
    /\ chan["c2"] = <<2>>

\* C4: the values written through one Val or one Dval are handed to the
\* connection in the order of the write calls; a write to a Dead Dval is
\* queued (write returns false), and a successful resubscription sends the
\* whole queue, in its order, before any later write.
\* The values of the Write messages of queue q, in order.
WritesOf(q) ==
    LET ws == SelectSeq(q, LAMBDA m : m.m = "Write")
    IN [i \in 1..Len(ws) |-> ws[i].v]

\* What writer w has written that is on the socket, then on its way to the
\* socket, then queued in the writer's Dval.
InFlight(w) ==
    LET queued == IF w[2] = "Dval" /\ handle[w[1]] # 0
                  THEN dvals[handle[w[1]]].queued_writes ELSE <<>>
    IN SelectSeq(written \o WritesOf(from_sub) \o queued, LAMBDA v : v.by = w)

WriteOrder ==
    \A w \in Writers :
        \A i, j \in 1..Len(InFlight(w)) : i < j => InFlight(w)[i].n < InFlight(w)[j].n

\* Dval::write of user u: sent when Subscribed, queued when Dead.
WriteStep(u) ==
    LET w == <<u, "Dval">>
        d == handle[u]
        v == [by |-> w, n |-> nwrites'[w]]
    IN nwrites'[w] # nwrites[w] =>
         IF dvals[d].state = "Dead"
         THEN /\ dvals'[d].queued_writes = Append(dvals[d].queued_writes, v)
              /\ from_sub' = from_sub
         ELSE /\ dvals'[d].queued_writes = <<>>
              /\ con.state = "open" /\ dvals[d].val.conid = con.id =>
                     from_sub' = Append(from_sub, ToConWrite(dvals[d].val.path, v))

\* Dval d is resubscribed: its queue is handed over, in order.
ResubscribedStep(d) ==
    dvals[d].state = "Dead" /\ dvals'[d].state = "Subscribed" =>
        /\ dvals'[d].queued_writes = <<>>
        /\ con.state = "open" /\ dvals'[d].val.conid = con.id =>
               WritesOf(from_sub') = WritesOf(from_sub) \o dvals[d].queued_writes

C4_WriteOrder ==
    /\ []WriteOrder
    /\ [][/\ \A u \in Users : WriteStep(u)
          /\ \A d \in SubIds : ResubscribedStep(d)]_vars

\* The Dval was resubscribed and both of its user's writes are on the
\* socket, in the order they were written.
C4_Witness ==
    /\ handle["u2"] # 0
    /\ dvals[handle["u2"]].state = "Subscribed"
    /\ SelectSeq(written, LAMBDA v : v.by = <<"u2", "Dval">>)
           = <<[by |-> <<"u2", "Dval">>, n |-> 1], [by |-> <<"u2", "Dval">>, n |-> 2]>>

\* C2: once the resolver, the network and the publisher fail no more, a Dval
\* that stays alive eventually is Subscribed, and every stream channel that
\* was registered on it by then is sent the current value (BEGIN_WITH_LAST).
\* The failures are over.
Settled == faults = MaxFaults

\* User u keeps a Dval that is Dead, with channel ch registered and so far
\* sent nothing.
DeadWith(u, ch) ==
    /\ handle[u] # 0
    /\ dvals[handle[u]].state = "Dead"
    /\ ch \in Range(dvals[handle[u]].streams)
    /\ chan[ch] = <<>>

SubscribedWith(u, ch) ==
    /\ handle[u] # 0
    /\ dvals[handle[u]].state = "Subscribed"
    /\ chan[ch] # <<>>

C2_DurableLive ==
    \A u \in Users, ch \in Chans :
        (Settled /\ DeadWith(u, ch)) ~> SubscribedWith(u, ch)



\* The live sessions, and those of client c.
Live == {sid \in Sids : tokens[sid] # NoClient}
LiveOf(c) == {sid \in Sids : tokens[sid] = c}

\* C15: session limits.  The live sessions never exceed max_sessions and
\* those of one client never exceed max_sessions_per_client; a request is
\* refused, starting no session and changing no counter, exactly when one
\* more session would exceed a limit; a session that ends releases one slot
\* of the total and one of its client.
C15_SessionLimits ==
    /\ [](/\ Cardinality(Live) <= max_sessions
          /\ \A c \in ClIds : Cardinality(LiveOf(c)) <= max_sessions_per_client
          /\ total = Cardinality(Live)
          /\ \A c \in ClIds : by_client[c] = Cardinality(LiveOf(c)))
    /\ [][\A c \in ClIds, sid \in Sids :
             NewSession(c, sid) =>
                IF Cardinality(Live) + 1 > max_sessions
                   \/ Cardinality(LiveOf(c)) + 1 > max_sessions_per_client
                THEN admitted' = "None" /\ UNCHANGED <<total, by_client, tokens>>
                ELSE admitted' = "Some" /\ Live' = Live \cup {sid}
                     /\ tokens'[sid] = c]_vars
    /\ [][\A sid \in Sids :
             delete_session(sid) =>
                /\ total' = total - 1
                /\ by_client'[tokens[sid]] = by_client[tokens[sid]] - 1
                /\ \A c \in ClIds \ {tokens[sid]} : by_client'[c] = by_client[c]]_vars

\* A request was refused while the total had room: its client has as many
\* sessions as one client may have.
C15_Witness ==
    /\ admitted = "None"
    /\ total = max_sessions - 1
    /\ \E c \in ClIds : by_client[c] = max_sessions_per_client


\* The batches of the archive's window that lie after the one the client
\* saw last: the one published last, or the one a seek showed the image of.
Unseen == {ts \in Window(cursor, alen) : ts > ctl.img}

\* T::next returns a batch and process_batch publishes it.
PlaybackStep ==
    \/ T_next_wake
    \/ T_next /\ fut' = 0 /\ <<cursor, speed.buf>>' # <<cursor, speed.buf>>

\* C11: playback order and end of archive.  The session publishes a batch
\* of the archive only in Play, and it is the first batch after the one the
\* client saw last: none skipped, none repeated, none reordered, across
\* refills of the buffer and changes of speed; in Play with no batch left
\* the session moves to Tail.
C11_PlaybackOrder ==
    /\ [][PlaybackStep =>
             /\ state = "Play"
             /\ Unseen # {}
             /\ ctl'.pos = Min(Unseen)]_vars
    /\ [][T_next /\ Unseen = {} => state' = "Tail"]_vars


\* The session's own fields, with what it publishes.
SessionFields == <<state, state_ctl, cursor, speed, ctl>>

\* The session loop receives BCastMsg::Batch(dt).
LiveBatch(dt) == process_bcast /\ bcast.missed = 0 /\ Head(bcast.q) = dt

StepForward ==
    /\ state = "Pause"
    /\ control_rx # <<>>
    /\ Head(control_rx) = <<Req("pos", String(<<"+", "1">>), FALSE)>>
    /\ process_control_batch

Invalid(req) ==
    IF req.id \in {"start", "end"} THEN ~parse_bound(req.value).ok
    ELSE IF req.id = "speed" THEN ~parse_speed(req.value).ok
    ELSE IF req.id = "state" THEN ~cast_to_State(req.value).ok
    ELSE ~cast_to_Seek(req.value).ok

\* C14: invalid control input leaves the session unchanged.  Every write of
\* a batch whose value does not parse is answered Value::Error on its
\* receipt, if it has one, and sends no ClusterCmd; a batch of such writes
\* only leaves the session's state, speed, bounds, cursor and published
\* controls as they were.
C14_InvalidInput ==
    [][control_rx # <<>> /\ process_control_batch =>
          LET batch == Head(control_rx)
              bad == {i \in DOMAIN batch : Invalid(batch[i])}
          IN /\ \A i \in bad : batch[i].receipt => i \in reply'
             /\ Len(cluster_cmds') - Len(cluster_cmds) <= Len(batch) - Cardinality(bad)
             /\ bad = DOMAIN batch =>
                   UNCHANGED <<SessionFields, cluster_cmds>>]_vars


C16_IdleGC ==
    [][IdleTick /\ ~running' =>
          /\ held.ctl = 0 /\ held.data = 0
          /\ idle]_vars

\* C17: idle flag reset.  When a new subscriber has connected, and when a
\* peer's NotIdle arrives, the session's idle flag is reset: the next tick
\* does not end the session.
C17_IdleReset ==
    [][NewClient \/ (NotIdle \in Range(cluster_rx) /\ process_control_cmd)
          => ~idle']_vars

\* C19: shutdown.  Once Stop has been broadcast, the recorder loop, the
\* publisher loop and every running session end and run_async returns.
C19_Shutdown ==
    signals > 0 ~> (rec_pc = "done" /\ pub_pc = "done" /\ ~running /\ returned)

\* Path::is_parent: base is path or one of its ancestors.
ancestor(base, path) ==
    /\ starts_with(path, base)
    /\ \/ Len(base) = Len(path)
       \/ base[Len(base)] = "/"
       \/ path[Len(base) + 1] = "/"

\* The longest cached base that is an ancestor of path, NoPath if none.
longest_ancestor(path) ==
    LET A == {k \in Bases : cached[k] # 0 /\ ancestor(k, path)}
    IN IF A = {} THEN NoPath
       ELSE CHOOSE k \in A : \A k2 \in A : Len(k2) <= Len(k)

\* C20: referral routing.  route_batch puts a request with a path into the
\* bucket of the longest cached base that is an ancestor of the path if
\* that entry has not expired; into the default bucket if there is no such
\* base or the entry has expired, and then the entry is removed; never into
\* the bucket of a base that is not an ancestor; a request without a path
\* goes to the default bucket.
C20_ReferralRouting ==
    [][(\E batch \in RouteBatches : route_batch(batch)) =>
          \A i \in DOMAIN routed'.batch :
             LET v == routed'.batch[i]
                 b == routed'.buckets[i]
                 k == longest_ancestor(v)
             IN /\ v = NoPath => b = NoPath
                /\ b # NoPath => ancestor(b, v)
                /\ v # NoPath /\ k # NoPath /\ now < cached[k] => b = k
                /\ v # NoPath /\ k # NoPath /\ ~(now < cached[k])
                      => b = NoPath /\ cached'[k] = 0
                /\ v # NoPath /\ k = NoPath => b = NoPath]_vars

\* C21: replies in submission order.  A successful send returns as many
\* replies as the batch has requests, none a referral, the i-th being the
\* answer to the i-th request.
C21_SubmissionOrder ==
    send_pc = "ok" =>
        /\ Len(res) = Len(sbatch)
        /\ \A i \in DOMAIN sbatch : res[i] = Ans(sbatch[i])

\* A send of two requests succeeded after a referral, the sub-batch of the
\* second request having been answered before that of the first.
C21_Witness ==
    /\ send_pc = "ok"
    /\ referrals > 0
    /\ Len(waiters) = 2
    /\ waiters[1] = <<2>>

\* C22: bounded referral depth.  send dispatches at most MAX_REFERRALS
\* rounds: a round is dispatched only while fewer than MAX_REFERRALS
\* rounds have ended with a referral, and the round after which
\* MAX_REFERRALS rounds have ended with a referral fails the call.
C22_BoundedDepth ==
    /\ send_pc = "wait" => referrals < MAX_REFERRALS
    /\ referrals >= MAX_REFERRALS => send_pc \in {"err", "idle"}

\* The delta batches of the archive, and their items in the order written.
Deltas == SelectSeq(archive, LAMBDA b : ~b.image)

RECURSIVE Written(_)
Written(a) == IF a = <<>> THEN <<>> ELSE Head(a).items \o Written(Tail(a))

C24_OutputOrder ==
    /\ \A i, j \in DOMAIN archive : i < j => archive[i].ts <= archive[j].ts
    /\ sent = [i \in DOMAIN Deltas |-> [ts |-> Deltas[i].ts, items |-> Deltas[i].items]]

\* A delta batch was written after an image batch while the wall clock was
\* behind the last timestamp.
C24_Witness ==
    /\ wall < timest
    /\ Len(archive) >= 3
    /\ archive[Len(archive) - 1].image
    /\ ~archive[Len(archive)].image
    /\ Len(sent) >= 2

\* ------------------------------------- the connection task's heartbeat
\* The connection task of a publisher by itself: its requests come from
\* callers that are not modelled and the publisher is the environment.
conRest ==
    <<subscribed, durable_dead, durable_pending, durable_alive, dvals, call,
      trigger_resub, retry, subscription_batch, from_sub, pending, subscriptions,
      pub, wire, handle, chan, written, faults>>

\* start_connection spawns the task; the task connects and enters its loop.
start_connection ==
    /\ con.state = "none"
    /\ con_res = "none"
    /\ con' = [state |-> "open", id |-> NewConId]
    /\ con_res' = "run"
    /\ con_idle' = 0
    /\ msg_recvd' = FALSE
    /\ UNCHANGED <<notTick, conRest, recently_failed, hist>>

\* The loop breaks with r: the cleanup after the loop, then the match on the
\* task's result in start_connection.
connection_end(r) ==
    /\ ConCleanup
    /\ con_res' = r
    /\ recently_failed' = (recently_failed \/ r # "Ok")
    /\ UNCHANGED <<notTick, durable_pending, retry, handle, chan, written, faults>>

\* from_sub yields ToCon::Subscribe(req) for path p, with a deadline or not.
con_subscribe(p, deadline) ==
    /\ con_res = "run"
    /\ pending' = [pending EXCEPT ![p] =
           [on |-> TRUE, caller |-> "", sub_id |-> Fresh, deadline |-> deadline]]
    /\ UNCHANGED <<notTick, tickVars, valueVars, chooseVars, ctsVars, subscribed, durable_dead, durable_pending,
                   durable_alive, dvals, call, trigger_resub, retry,
                   subscription_batch, con, from_sub, subscriptions, pub, wire,
                   handle, chan, written, faults>>

\* from_sub yields None: every sender is gone.
con_dropped ==
    /\ con_res = "run"
    /\ connection_end("dropped")
    /\ UNCHANGED <<con_idle, msg_recvd, hist>>

\* The frames the publisher sends: f on path p; `live` says whether the
\* receiver of the request's oneshot is still there.
Frames == {"Heartbeat", "NoSuchValue", "Subscribed", "Unsubscribed"}

\* fill_buffer returns Ok and the frame f is decoded.
fill_buffer(f, p, live) ==
    /\ con_res = "run"
    /\ msg_recvd' = TRUE
    /\ pending' = IF f \in {"NoSuchValue", "Subscribed"}
                  THEN [pending EXCEPT ![p] = NoReq] ELSE pending
    /\ call' = IF f = "NoSuchValue" /\ pending[p].on
               THEN Deliver(call, pending[p].caller, p, Err("no such value"))
               ELSE call
    /\ subscriptions' =
           IF f = "Subscribed" /\ pending[p].on /\ live
           THEN [subscriptions EXCEPT ![p] = [on |-> TRUE, streams |-> <<>>, last |-> 0]]
           ELSE IF f = "Unsubscribed" THEN [subscriptions EXCEPT ![p] = NoSub]
           ELSE subscriptions
    /\ IF f = "Unsubscribed" /\ subscriptions[p].on
       THEN SetSubscriberMaps(unsubscribe(SubscriberMaps, p))
       ELSE UNCHANGED <<subscribed, durable_dead, durable_alive, dvals, trigger_resub>>
    /\ UNCHANGED <<notTick, con_idle, con_res, recently_failed, hist, durable_pending,
                   retry, subscription_batch, con, from_sub, pub, wire, handle, chan,
                   written, faults>>

\* fill_buffer returns Err.
fill_buffer_err ==
    /\ con_res = "run"
    /\ connection_end("read error")
    /\ UNCHANGED <<con_idle, msg_recvd, hist>>

\* `idle` after a tick that does not end the task, never set back to 0.
next_idle_kept(i, quiet) == i + 1

\* `idle` after a tick that does not end the task; quiet: the tick finds no
\* subscription and no pending request.
next_idle(i, quiet) == IF quiet THEN i + 1 ELSE 0

Quiet == \A p \in Paths : ~subscriptions[p].on /\ ~pending[p].on

\* periodic yields: the tick.  late: the pending requests whose deadline has
\* passed.
periodic_next(late) ==
    /\ con_res = "run"
    /\ Len(hist) < MaxTicks
    /\ late \subseteq {p \in Paths : pending[p].on /\ pending[p].deadline}
    /\ hist' = Append(hist, [quiet |-> Quiet, msg |-> msg_recvd])
    /\ IF ~msg_recvd
       THEN /\ late = {}
            /\ connection_end("hung publisher")
            /\ UNCHANGED <<con_idle, msg_recvd>>
       ELSE /\ msg_recvd' = FALSE
            /\ con_idle' = next_idle(con_idle, Quiet)
            /\ IF Quiet /\ con_idle' = 2
               THEN /\ late = {}
                    /\ connection_end("Ok")
               ELSE /\ pending' = [p \in Paths |->
                                     IF p \in late THEN NoReq ELSE pending[p]]
                    /\ call' = DeliverAll(call,
                                   [i \in 1..Len(PathSeq(late)) |->
                                      [caller |-> pending[PathSeq(late)[i]].caller,
                                       path |-> PathSeq(late)[i]]],
                                   Err("timed out"))
                    /\ UNCHANGED <<notTick, con_res, recently_failed, subscribed,
                                   durable_dead, durable_pending, durable_alive, dvals,
                                   trigger_resub, retry, subscription_batch, con,
                                   from_sub, subscriptions, pub, wire, handle, chan,
                                   written, faults>>

\* One connection: requests arrive, the publisher sends frames or nothing,
\* the timer ticks.
NextTick ==
    \/ start_connection
    \/ \E p \in Paths, deadline \in BOOLEAN : con_subscribe(p, deadline)
    \/ con_dropped
    \/ \E f \in Frames, p \in Paths, live \in BOOLEAN : fill_buffer(f, p, live)
    \/ fill_buffer_err
    \/ \E late \in SUBSET Paths : periodic_next(late)

SpecTick == Init /\ [][NextTick]_vars

\* A tick: the step that adds to hist.
Ticked == Len(hist') = Len(hist) + 1

\* The last two ticks both found no subscription and no pending request.
TwiceQuiet(h) == Len(h) >= 2 /\ h[Len(h)].quiet /\ h[Len(h) - 1].quiet

\* C25 as stated: a tick that ends a period in which the publisher sent
\* nothing, on a connection with no subscription and no pending request,
\* does not fail the connection: the task goes on or ends Ok, and the address
\* is not put in recently_failed.
C25_SilentIdleClose ==
    [][(Ticked /\ Quiet /\ ~msg_recvd)
          => (con_res' \in {"run", "Ok"} /\ recently_failed' = recently_failed)]_vars

\* C25: idle close of a publisher connection.  A tick closes the connection
\* as idle (result Ok, the address not put in recently_failed) exactly when
\* the publisher sent something in the period it ends and this tick and the
\* one before it both found no subscription and no pending request; a tick
\* that ends a period in which the publisher sent nothing ends the task
\* with "hung publisher" and puts the address in recently_failed.
C25_IdleClose ==
    [][Ticked =>
          /\ (msg_recvd /\ TwiceQuiet(hist'))
                => (con_res' = "Ok" /\ recently_failed' = recently_failed)
          /\ con_res' = "Ok" => (msg_recvd /\ TwiceQuiet(hist'))
          /\ ~msg_recvd => (con_res' = "hung publisher" /\ recently_failed')]_vars

\* A connection that had a subscription closed as idle at its third tick.
C25_Witness ==
    /\ con_res = "Ok"
    /\ ~recently_failed
    /\ Len(hist) = 3
    /\ ~hist[1].quiet
    /\ con = NoCon

\* ---------------------------------------------------------------- Value
Unsigned32 == {"U32", "V32"}
Signed32 == {"I32", "Z32"}
Unsigned64 == {"U64", "V64"}
Signed64 == {"I64", "Z64"}
Integral == Unsigned32 \cup Signed32 \cup Unsigned64 \cup Signed64
Floating == {"F32", "F64"}

\* Value::number
number(v) == v.k \in Integral \cup Floating \cup {"Decimal"}

\* The discriminant byte Hash feeds first.
hash_tag(k) ==
    CASE k = "U32" -> 0 [] k = "V32" -> 1 [] k = "I32" -> 2 [] k = "Z32" -> 3
      [] k = "U64" -> 4 [] k = "V64" -> 5 [] k = "I64" -> 6 [] k = "Z64" -> 7
      [] k = "F32" -> 8 [] k = "F64" -> 9 [] k = "DateTime" -> 10
      [] k = "Duration" -> 11 [] k = "String" -> 12 [] k = "Bytes" -> 13
      [] k = "True" -> 14 [] k = "False" -> 15 [] k = "Null" -> 16
      [] k = "Ok" -> 17 [] k = "Error" -> 18 [] k = "Array" -> 19
      [] k = "Decimal" -> 20

\* One write to the Hasher: w bytes holding c: n / d or the bytes s.
Fed(w, c, n, d, s) == [w |-> w, c |-> c, n |-> n, d |-> d, s |-> s]

\* The bits of a float as hashed: a NaN keeps its sign and loses its payload.
hash_bits(w, v) ==
    IF v.f \in {"nan", "nnan"} THEN Fed(w, v.f, 0, 1, <<>>)
    ELSE Fed(w, v.f, v.n, v.d, <<>>)

\* impl Hash for Value: what hash feeds the Hasher.
RECURSIVE hash(_)
hash(v) ==
    LET k == v.k
        tag == <<Fed(1, "u8", hash_tag(k), 1, <<>>)>>
        RECURSIVE each(_)
        each(es) == IF es = <<>> THEN <<>> ELSE hash(Head(es)) \o each(Tail(es))
    IN CASE k \in Unsigned32 \cup Signed32 -> tag \o <<Fed(4, "int", v.n, 1, <<>>)>>
         [] k \in Unsigned64 \cup Signed64 -> tag \o <<Fed(8, "int", v.n, 1, <<>>)>>
         [] k = "F32" -> tag \o <<hash_bits(4, v)>>
         [] k = "F64" -> tag \o <<hash_bits(8, v)>>
         [] k = "DateTime" -> tag \o <<Fed(8, "datetime", v.n, 1, <<>>)>>
         [] k = "Duration" -> tag \o <<Fed(8, "int", v.n, 1, <<>>), Fed(4, "int", 0, 1, <<>>)>>
         [] k \in {"String", "Error"} ->
                tag \o <<Fed(Len(v.s), "bytes", 0, 1, v.s), Fed(1, "u8", 255, 1, <<>>)>>
         [] k = "Bytes" ->
                tag \o <<Fed(8, "int", Len(v.s), 1, <<>>), Fed(Len(v.s), "bytes", 0, 1, v.s)>>
         [] k = "Decimal" -> tag \o <<Fed(16, "decimal", v.n, 1, <<>>)>>
         [] k = "Array" -> tag \o each(v.a)
         [] OTHER -> tag

\* A float: what cast_to::<f64> answers, or None.
F64Of(f, n, d) == [ok |-> TRUE, f |-> f, n |-> n, d |-> d]
CantCast == [ok |-> FALSE, f |-> "", n |-> 0, d |-> 1]

\* value_parser::parse_value on the strings used here: "u32:" and one digit
\* is a U32 literal, anything else is not a Value literal.
parse_value(s) ==
    IF Len(s) = 5 /\ SubSeq(s, 1, 4) = <<85, 51, 50>> /\ s[5] \in 48..57
    THEN [ok |-> TRUE, v |-> Num("U32", s[5] - 48)]
    ELSE [ok |-> FALSE, v |-> Unit("Null")]

\* Value::cast_to::<f64>, that is Value::cast(Typ::F64).
RECURSIVE cast_to_f64(_)
cast_to_f64(v) ==
    LET k == v.k
    IN CASE k = "String" ->
                IF parse_value(v.s).ok THEN cast_to_f64(parse_value(v.s).v) ELSE CantCast
         [] k = "Array" -> IF v.a = <<>> THEN CantCast ELSE cast_to_f64(v.a[1])
         [] k \in Integral \cup {"Decimal", "DateTime", "Duration"} -> F64Of("num", v.n, 1)
         [] k \in Floating -> F64Of(v.f, v.n, v.d)
         [] k \in {"True", "Ok"} -> F64Of("num", 1, 1)
         [] k \in {"False", "Error"} -> F64Of("num", 0, 1)
         [] OTHER -> CantCast

\* f64::classify, as far as eq and partial_cmp look at it.
classify(x) ==
    IF x.f \in {"nan", "nnan"} THEN "Nan"
    ELSE IF x.f \in {"num", "nzero"} /\ x.n = 0 THEN "Zero"
    ELSE "Other"

\* l < r and l == r of two floats that are not NaN.
float_lt(l, r) ==
    IF l.f = "ninf" \/ r.f = "inf" THEN l.f # r.f
    ELSE IF l.f = "inf" \/ r.f = "ninf" THEN FALSE
    ELSE l.n * r.d < r.n * l.d
float_eq(l, r) == ~float_lt(l, r) /\ ~float_lt(r, l)

\* The arms of eq for two floats.
eq_float(l, r) ==
    IF classify(l) = "Nan" /\ classify(r) = "Nan" THEN TRUE
    ELSE IF classify(l) = "Zero" /\ classify(r) = "Zero" THEN TRUE
    ELSE classify(l) # "Nan" /\ classify(r) # "Nan" /\ float_eq(l, r)

\* impl PartialEq for Value
RECURSIVE eq(_, _)
eq(l, r) ==
    LET same(K) == l.k \in K /\ r.k \in K
        RECURSIVE all(_, _)
        all(x, y) == IF x = <<>> \/ y = <<>> THEN x = y
                     ELSE eq(Head(x), Head(y)) /\ all(Tail(x), Tail(y))
    IN CASE same(Unsigned32) \/ same(Signed32) \/ same(Unsigned64) \/ same(Signed64) ->
                l.n = r.n
         [] same({"F32"}) \/ same({"F64"}) -> eq_float(l, r)
         [] same({"Decimal"}) \/ same({"DateTime"}) \/ same({"Duration"}) -> l.n = r.n
         [] same({"String"}) \/ same({"Bytes"}) -> l.s = r.s
         [] same({"True", "False"}) -> l.k = r.k
         [] same({"Null"}) -> TRUE
         [] same({"Ok", "Error"}) -> l.k = r.k /\ l.s = r.s
         [] same({"Array"}) -> all(l.a, r.a)
         [] OTHER ->
                IF l.k = "Array" \/ r.k = "Array" THEN FALSE
                ELSE IF number(l) \/ number(r)
                THEN /\ cast_to_f64(l).ok
                     /\ cast_to_f64(r).ok
                     /\ eq_float(cast_to_f64(l), cast_to_f64(r))
                ELSE FALSE

\* The decimal digits of n >= 0.
RECURSIVE digits(_)
digits(n) == IF n < 10 THEN <<48 + n>> ELSE digits(n \div 10) \o <<48 + (n % 10)>>

\* The discriminant as Display writes it.
type_prefix(k) ==
    CASE k = "U32" -> <<117, 51, 50, 58>> [] k = "V32" -> <<118, 51, 50, 58>> [] k = "I32" -> <<105, 51, 50, 58>>
      [] k = "Z32" -> <<122, 51, 50, 58>> [] k = "U64" -> <<117, 54, 52, 58>> [] k = "V64" -> <<118, 54, 52, 58>>
      [] k = "I64" -> <<105, 54, 52, 58>> [] k = "Z64" -> <<122, 54, 52, 58>> [] k = "F32" -> <<102, 51, 50, 58>>
      [] k = "F64" -> <<102, 54, 52, 58>> [] k = "Decimal" -> <<100, 101, 99, 105, 109, 97, 108, 58>>
      [] k = "DateTime" -> <<100, 97, 116, 101, 116, 105, 109, 101, 58, 34>> [] k = "Duration" -> <<100, 117, 114, 97, 116, 105, 111, 110, 58>>
      [] k = "Bytes" -> <<98, 121, 116, 101, 115, 58>> [] k = "Error" -> <<101, 114, 114, 111, 114, 58, 34>> [] k = "String" -> <<34>>
      [] k = "True" -> <<116, 114, 117, 101>> [] k = "False" -> <<102, 97, 108, 115, 101>> [] k = "Null" -> <<110, 117, 108, 108>>
      [] k = "Ok" -> <<111, 107>> [] k = "Array" -> <<91>>

\* format!("{}", v): Value::fmt_ext with types, for the values used here
\* (whole numbers, nothing to escape).
format(v) ==
    LET k == v.k
        num == IF v.n < 0 THEN <<45>> \o digits(0 - v.n) ELSE digits(v.n)
    IN CASE k \in Integral \cup {"Decimal"} -> type_prefix(k) \o num
         [] k \in Floating ->
                type_prefix(k) \o
                (CASE v.f \in {"nan", "nnan"} -> <<78, 97, 78>>
                   [] v.f = "nzero" -> <<45, 48, 46>>
                   [] v.f = "inf" -> <<105, 110, 102>>
                   [] v.f = "ninf" -> <<45, 105, 110, 102>>
                   [] OTHER -> IF v.d = 1 THEN num \o <<46>>
                               ELSE num \o <<47>> \o digits(v.d))
         [] k = "DateTime" -> type_prefix(k) \o num \o <<34>>
         [] k = "Duration" -> type_prefix(k) \o num \o <<46, 115>>
         [] k \in {"String", "Error"} -> type_prefix(k) \o v.s \o <<34>>
         [] k = "Bytes" -> type_prefix(k) \o v.s
         [] OTHER -> type_prefix(k)

\* Ord for str and for [u8]: Less, Equal or Greater.
RECURSIVE cmp_bytes(_, _)
cmp_bytes(x, y) ==
    IF x = <<>> THEN (IF y = <<>> THEN "Equal" ELSE "Less")
    ELSE IF y = <<>> THEN "Greater"
    ELSE IF Head(x) < Head(y) THEN "Less"
    ELSE IF Head(x) > Head(y) THEN "Greater"
    ELSE cmp_bytes(Tail(x), Tail(y))

cmp_int(x, y) == IF x < y THEN "Less" ELSE IF x > y THEN "Greater" ELSE "Equal"

\* The arms of partial_cmp for two floats.
cmp_float(l, r) ==
    IF classify(l) = "Nan" /\ classify(r) = "Nan" THEN "Equal"
    ELSE IF classify(l) = "Nan" THEN "Less"
    ELSE IF classify(r) = "Nan" THEN "Greater"
    ELSE IF float_lt(l, r) THEN "Less"
    ELSE IF float_lt(r, l) THEN "Greater"
    ELSE "Equal"

\* impl PartialOrd for Value: Less, Equal, Greater, or None.
RECURSIVE partial_cmp(_, _)
partial_cmp(l, r) ==
    LET same(K) == l.k \in K /\ r.k \in K
        RECURSIVE slices(_, _)
        slices(x, y) ==
            IF x = <<>> THEN (IF y = <<>> THEN "Equal" ELSE "Less")
            ELSE IF y = <<>> THEN "Greater"
            ELSE IF partial_cmp(Head(x), Head(y)) = "Equal" THEN slices(Tail(x), Tail(y))
            ELSE partial_cmp(Head(x), Head(y))
    IN CASE same(Unsigned32) \/ same(Signed32) \/ same(Unsigned64) \/ same(Signed64) ->
                cmp_int(l.n, r.n)
         [] same({"F32"}) \/ same({"F64"}) -> cmp_float(l, r)
         [] same({"Decimal"}) \/ same({"DateTime"}) \/ same({"Duration"}) ->
                cmp_int(l.n, r.n)
         [] same({"String"}) \/ same({"Bytes"}) -> cmp_bytes(l.s, r.s)
         [] same({"True"}) \/ same({"False"}) -> "Equal"
         [] l.k = "False" /\ r.k = "True" -> "Less"
         [] l.k = "True" /\ r.k = "False" -> "Greater"
         [] OTHER ->
                IF same({"Null"}) THEN "Equal"
                ELSE IF l.k = "Null" THEN "Less"
                ELSE IF r.k = "Null" THEN "Greater"
                ELSE IF same({"Ok"}) THEN "Equal"
                ELSE IF same({"Error"}) THEN cmp_bytes(l.s, r.s)
                ELSE IF l.k = "Error" THEN "Less"
                ELSE IF r.k = "Error" THEN "Greater"
                ELSE IF same({"Array"}) THEN slices(l.a, r.a)
                ELSE IF l.k = "Array" THEN "Less"
                ELSE IF r.k = "Array" THEN "Greater"
                ELSE IF (number(l) \/ number(r)) /\ cast_to_f64(l).ok /\ cast_to_f64(r).ok
                THEN cmp_float(cast_to_f64(l), cast_to_f64(r))
                ELSE cmp_bytes(format(l), format(r))

\* The Values the operations are applied to.
Values ==
    {Num(k, 1) : k \in Integral} \cup {Num("U32", 0)}
    \cup {Float("F32", "num", 1, 1), Float("F64", "num", 1, 1)}
    \cup {Float("F64", f, 0, 1) : f \in {"nan", "nnan", "num", "nzero"}}
    \cup {Num("Decimal", 1), Num("DateTime", 1), Num("Duration", 5)}
    \cup {Text("String", <<97>>), Text("String", <<117, 51, 50, 58, 49>>),
          Text("Bytes", <<97>>), Text("Error", <<97>>)}
    \cup {Unit("True"), Unit("False"), Unit("Null"), Unit("Ok")}
    \cup {Array(<<>>), Array(<<Num("U32", 1)>>), Array(<<Num("V32", 1)>>)}

\* va and vb are hashed and compared for equality.
hash_pair ==
    /\ vout.op = "none"
    /\ vout' = [NoOut EXCEPT !.op = "hash", !.h = <<hash(va), hash(vb)>>,
                             !.e = eq(va, vb)]
    /\ UNCHANGED <<notValue, va, vb, vc>>

\* va, vb and vc are compared.
cmp_triple ==
    /\ vout.op = "none"
    /\ vout' = [NoOut EXCEPT !.op = "cmp", !.e = eq(va, vb),
                             !.c = [ab |-> partial_cmp(va, vb),
                                    ba |-> partial_cmp(vb, va),
                                    bc |-> partial_cmp(vb, vc),
                                    ac |-> partial_cmp(va, vc)]]
    /\ UNCHANGED <<notValue, va, vb, vc>>

InitValue ==
    /\ InitRest
    /\ running = TRUE
    /\ pub_pc = "loop"
    /\ rec_pc = "loop"
    /\ va \in Values
    /\ vb \in Values
    /\ vc \in Values
    /\ vout = NoOut
    /\ NoGlobs

NextValue ==
    \/ hash_pair
    \/ cmp_triple

SpecValue == InitValue /\ [][NextValue]_vars

\* C26: Hash/Eq coherence.  Two Values that are equal under the Value
\* equality feed the hasher the same data.
C26_HashEq == (vout.op = "hash" /\ vout.e) => vout.h[1] = vout.h[2]

\* C27: ordering totality.  partial_cmp answers Some; it answers Equal
\* exactly when the Values are equal; a < b exactly when b > a; and a < b and
\* b < c give a < c.
C27_TotalOrder ==
    vout.op = "cmp" =>
        /\ vout.c.ab \in {"Less", "Equal", "Greater"}
        /\ (vout.c.ab = "Equal") <=> vout.e
        /\ (vout.c.ab = "Less") <=> (vout.c.ba = "Greater")
        /\ (vout.c.ab = "Less" /\ vout.c.bc = "Less") => vout.c.ac = "Less"

\* ------------------------------------------------------ Value arithmetic
\* u32 and i32 are Bits32 bits wide here, u64 and i64 Bits64 bits.
Pow2(w) == 2 ^ w

\* Wrapping<uN> and Wrapping<iN>: x as a w-bit unsigned or signed integer.
wrap_unsigned(w, x) == x % Pow2(w)
wrap_signed(w, x) == ((x + Pow2(w - 1)) % Pow2(w)) - Pow2(w - 1)

Magnitude(x) == IF x < 0 THEN 0 - x ELSE x

RECURSIVE Gcd(_, _)
Gcd(x, y) == IF y = 0 THEN x ELSE Gcd(y, x % y)

\* The integer operators; / truncates toward zero, y # 0.
int_op(op, x, y) ==
    CASE op = "+" -> x + y
      [] op = "-" -> x - y
      [] op = "*" -> x * y
      [] op = "/" -> IF (x < 0) = (y < 0) THEN Magnitude(x) \div Magnitude(y)
                     ELSE 0 - (Magnitude(x) \div Magnitude(y))

\* The float n / d in lowest terms, d > 0.
Ratio(k, n, d) ==
    LET g == Gcd(Magnitude(n), Magnitude(d))
    IN IF d < 0 THEN Float(k, "num", (0 - n) \div g, (0 - d) \div g)
       ELSE Float(k, "num", n \div g, d \div g)

\* The float operators on two finite floats (the sign of a zero is not kept).
float_op(k, op, x, y) ==
    CASE op = "+" -> Ratio(k, x.n * y.d + y.n * x.d, x.d * y.d)
      [] op = "-" -> Ratio(k, x.n * y.d - y.n * x.d, x.d * y.d)
      [] op = "*" -> Ratio(k, x.n * y.n, x.d * y.d)
      [] op = "/" -> IF y.n # 0 THEN Ratio(k, x.n * y.d, x.d * y.n)
                     ELSE IF x.n = 0 THEN Float(k, "nan", 0, 1)
                     ELSE IF x.n > 0 THEN Float(k, "inf", 0, 1)
                     ELSE Float(k, "ninf", 0, 1)

\* The panic of an integer division by zero, until catch_unwind.
Panic == Unit("Panic")

\* The $id of each operator.
identity(op) == IF op \in {"+", "-"} THEN 0 ELSE 1

\* (Array(e0), Array(e1)): e0 becomes the shorter array and e1 the other.
array_zip(l, r) ==
    IF Len(l) < Len(r) THEN [e0 |-> l, e1 |-> r] ELSE [e0 |-> r, e1 |-> l]

\* apply_op!(l, r, $id, $op, ...) on integers, floats and arrays of them.
RECURSIVE apply_op(_, _, _)
apply_op(l, r, op) ==
    LET both(K) == l.k \in K /\ r.k \in K
        ints == l.k \in Integral /\ r.k \in Integral
        \* `as i64`
        as_i64(v) == IF v.k \in Unsigned64 THEN wrap_signed(Bits64, v.n) ELSE v.n
        wrapping(k, unsigned, w, x, y) ==
            IF op = "/" /\ y = 0 THEN Panic
            ELSE IF unsigned THEN Num(k, wrap_unsigned(w, int_op(op, x, y)))
            ELSE Num(k, wrap_signed(w, int_op(op, x, y)))
        as_float(v) == IF v.k \in Floating THEN v ELSE Float("F64", "num", v.n, 1)
        floats(k) ==
            IF as_float(l).f # "num" \/ as_float(r).f # "num" THEN Float(k, "nan", 0, 1)
            ELSE float_op(k, op, as_float(l), as_float(r))
        z == array_zip(l.a, r.a)
        pad == Float("F64", "num", identity(op), 1)
        elts == [i \in 1..Len(z.e1) |->
                   apply_op(IF i <= Len(z.e0) THEN z.e0[i] ELSE pad, z.e1[i], op)]
    IN CASE both(Unsigned32) -> wrapping("U32", TRUE, Bits32, l.n, r.n)
         [] both(Signed32) -> wrapping("I32", FALSE, Bits32, l.n, r.n)
         [] both(Unsigned64) -> wrapping("U64", TRUE, Bits64, l.n, r.n)
         [] both(Signed64) -> wrapping("I64", FALSE, Bits64, l.n, r.n)
         [] both({"F32"}) -> floats("F32")
         [] ints /\ both(Unsigned32 \cup Unsigned64) /\ ~both(Unsigned32)
                 /\ ~both(Unsigned64) ->
                wrapping("U64", TRUE, Bits64, l.n, r.n)
         [] ints /\ ~both(Unsigned32 \cup Unsigned64) /\ ~both(Signed32)
                 /\ ~both(Signed64) ->
                wrapping("I64", FALSE, Bits64, as_i64(l), as_i64(r))
         [] (l.k = "F64" /\ r.k \in Integral \cup Floating)
              \/ (r.k = "F64" /\ l.k \in Integral \cup Floating) -> floats("F64")
         [] (l.k = "F32" /\ r.k \in Integral) \/ (r.k = "F32" /\ l.k \in Integral) ->
                floats("F32")
         [] both({"Array"}) ->
                IF \E i \in DOMAIN elts : elts[i] = Panic THEN Panic ELSE Array(elts)
         [] OTHER -> Text("Error", <<>>)

\* impl Add, Sub, Mul, Div for Value: Div catches the panic.
arith(l, r, op) ==
    IF apply_op(l, r, op) = Panic THEN Text("Error", <<100, 105, 118>>)
    ELSE apply_op(l, r, op)

Ops == {"+", "-", "*", "/"}

\* The elements of the arrays: small and large ones of three kinds.
Elements ==
    {Num("U32", 1), Num("U32", Pow2(Bits32) - 1), Num("I64", 0 - 2),
     Float("F64", "num", 2, 1)}

Arrays == {Array(a) : a \in UNION {[1..n -> Elements] : n \in 0..MaxArray}}

\* va op vb
apply(op) ==
    /\ vout.op = "none"
    /\ vout' = [NoOut EXCEPT !.op = op, !.r = arith(va, vb, op)]
    /\ UNCHANGED <<notValue, va, vb, vc>>

InitArith ==
    /\ InitRest
    /\ running = TRUE
    /\ pub_pc = "loop"
    /\ rec_pc = "loop"
    /\ va \in Arrays
    /\ vb \in Arrays
    /\ vc = Unit("Null")
    /\ vout = NoOut
    /\ NoGlobs

NextArith == \E op \in Ops : apply(op)

SpecArith == InitArith /\ [][NextArith]_vars

\* The i-th element of array x, or the identity of op past its end.
Padded(x, i, op) ==
    IF i <= Len(x.a) THEN x.a[i] ELSE Float("F64", "num", identity(op), 1)

\* C28: array arithmetic.  a op b is the array as long as the longer of a
\* and b whose i-th element is a[i] op b[i], a's element on the left, the
\* shorter array continued with the identity of op (an integer division by
\* zero in an element makes the whole result an Error).
C28_ArrayOp ==
    vout.op \in Ops =>
        LET n == IF Len(va.a) < Len(vb.a) THEN Len(vb.a) ELSE Len(va.a)
            want == [i \in 1..n |->
                       apply_op(Padded(va, i, vout.op), Padded(vb, i, vout.op), vout.op)]
        IN IF \E i \in 1..n : want[i] = Panic THEN vout.r.k = "Error"
           ELSE vout.r = Array(want)

\* -------------------------------------------- the supervisor and one Dval
\* One user subscribes durably to the one path, registers channels, writes
\* and drops its Dval; the resolver, the publisher and the connection fail.
NextSup ==
    \/ subscribe("u2", "a")
    \/ DropDval("u2")
    \/ \E ch \in Chans :
          /\ ch = NewChan
          /\ handle["u2"] # 0
          /\ dvals[handle["u2"]].streams = <<>>
          /\ DvalUpdates("u2", ch, FALSE)
    \/ nwrites[<<"u2", "Dval">>] = 0 /\ DvalWrite("u2")
    \/ SupTrigger(OneSet)
    \/ SupRetry(OneSet)
    \/ SupInit("s1")
    \/ SupFinish
    \/ wait_result("s1", "a")
    \/ \E o \in {"resolved", "failed"}, found \in SUBSET {"a"} :
          ResolveDone("s1", o, found)
    \/ ConSubscribe("Subscribed")
    \/ ConSubscribed
    \/ ConStream
    \/ ConWrite
    \/ ConUnsubscribe
    \/ ConUnsubscribed
    \/ PubUnsubscribe("a")
    \/ ConDie

SpecSup == Init /\ [][NextSup]_vars

\* The results of the batch that are a success for a Dval that is alive.
Succeeded ==
    {i \in DOMAIN subscription_batch :
        /\ subscription_batch[i].r.t = "ok"
        /\ DvalUpgrade(durable_pending[subscription_batch[i].path])}

NoneGone ==
    \A p \in Paths :
        durable_dead[p] # Gone /\ durable_pending[p] # Gone /\ durable_alive[p] # Gone

REMEBER_FAILED == 60

\* How long the clock is let run between two steps, in seconds.
Waits == {30, 60}

\* The bits of PublishFlags, and a bit that is none of them.
FlagBits == {"USE_EXISTING", "ISOLATED", "unknown"}

\* PublishFlags::from_bits: None for a bit that is no flag.
from_bits(bits) == "unknown" \notin bits

\* The publishers a Resolved names that have a record in `publishers`
\* ("none": no record), in the order of resolved.publishers.
records(publishers, resolved) ==
    SelectSeq(resolved, LAMBDA id : publishers[id] # "none")

\* The flags of the Chosen: ISOLATED is cleared when USE_EXISTING is set.
chosen_flags(bits) ==
    IF "USE_EXISTING" \in bits THEN bits \ {"ISOLATED"} ELSE bits

\* The filter of the first choice forgotten: every publisher with a record
\* passes.
not_failed_all(rf, a) == TRUE

\* .filter(|pb| !self.recently_failed.contains_key(&pb.addr))
not_failed(rf, a) == rf[a] = -1

\* SubscriberInner::choose_addr: the set of what it can return, "None" or
\* an address, .choose(&mut rand::thread_rng()) being any element.
\* connections: the addresses that have a connection.
choose_addr(publishers, resolved, bits, connections, rf) ==
    LET recs == records(publishers, resolved)
        addrs == {publishers[recs[i]] : i \in 1..Len(recs)}
        existing == {i \in 1..Len(recs) : publishers[recs[i]] \in connections}
        fresh == {a \in addrs : not_failed(rf, a)}
    IN IF ~from_bits(bits) THEN {"None"}
       ELSE IF "USE_EXISTING" \in bits /\ existing # {}
       THEN {publishers[recs[Min(existing)]]}
       ELSE IF fresh # {} THEN fresh
       ELSE IF addrs # {} THEN addrs
       ELSE {"None"}

\* A call of choose_addr, from subscribe_nondurable once the resolver has
\* answered; the caller holds the subscriber's lock until Chose.
Choose(publishers, resolved, bits, connections) ==
    /\ chosen.op = "none"
    /\ \E a \in choose_addr(publishers, resolved, bits, connections,
                            recently_failed_at) :
          chosen' = [op |-> "choose", flags |-> bits,
                     cands |-> {publishers[id] : id \in Range(resolved)} \ {"none"},
                     failed |-> {b \in Addrs : recently_failed_at[b] # -1},
                     out |-> a,
                     oflags |-> IF a = "None" THEN {} ELSE chosen_flags(bits)]
    /\ UNCHANGED <<notChoose, recently_failed_at, last_err, instant, gc_at>>

\* The caller of choose_addr goes on with what it got and lets the lock go.
Chose ==
    /\ chosen.op = "choose"
    /\ chosen' = NoChoice
    /\ UNCHANGED <<notChoose, recently_failed_at, last_err, instant, gc_at>>

\* gc_recently_failed keeps every entry.
gc_recently_failed_none(rf, t) == rf

\* fn gc_recently_failed, at instant t.
gc_recently_failed(rf, t) ==
    [a \in Addrs |-> IF rf[a] # -1 /\ (t - rf[a]) < REMEBER_FAILED
                     THEN rf[a] ELSE -1]

\* subscribe_nondurable's first step under the lock.
Gc ==
    /\ chosen.op = "none"
    /\ recently_failed_at' = gc_recently_failed(recently_failed_at, instant)
    /\ gc_at' = instant
    /\ UNCHANGED <<notChoose, last_err, instant, chosen>>

\* start_connection after the connection task has returned r for address a.
ConnectionEnded(a, r) ==
    /\ chosen.op = "none"
    /\ IF r = "Ok"
       THEN UNCHANGED <<recently_failed_at, last_err>>
       ELSE /\ recently_failed_at' = [recently_failed_at EXCEPT ![a] = instant]
            /\ last_err' = [last_err EXCEPT ![a] = instant]
    /\ UNCHANGED <<notChoose, instant, gc_at, chosen>>

\* Time passes.
Later(w) ==
    /\ chosen.op = "none"
    /\ instant + w <= MaxInstant
    /\ instant' = instant + w
    /\ UNCHANGED <<notChoose, recently_failed_at, last_err, gc_at, chosen>>

\* The lists of publisher ids a Resolved can hold.
Resolveds ==
    {<<>>} \cup {<<i>> : i \in PublisherIds}
           \cup {q \in PublisherIds \X PublisherIds : q[1] # q[2]}

NextChoose ==
    \/ \E publishers \in [PublisherIds -> Addrs \cup {"none"}],
          resolved \in Resolveds, bits \in SUBSET FlagBits,
          connections \in SUBSET Addrs :
          Choose(publishers, resolved, bits, connections)
    \/ Chose
    \/ Gc
    \/ \E a \in Addrs, r \in {"Ok", "Err"} : ConnectionEnded(a, r)
    \/ \E w \in Waits : Later(w)

SpecChoose == Init /\ [][NextChoose]_vars

\* C31: publisher choice avoids recent failures.  Without USE_EXISTING,
\* choose_addr returns an address that is not in recently_failed whenever a
\* resolved publisher with a record has one, a recently failed address only
\* when every candidate is recently failed, and None only when no resolved
\* publisher has a record or the flags are invalid; and an address is in
\* recently_failed only if a connection to it ended with an error less than
\* REMEBER_FAILED before the last garbage collection.
C31_ChooseFresh ==
    /\ (chosen.op = "choose" /\ "USE_EXISTING" \notin chosen.flags) =>
          LET fresh == chosen.cands \ chosen.failed
          IN /\ (fresh # {} /\ from_bits(chosen.flags)) => chosen.out \in fresh
             /\ (chosen.out # "None" /\ chosen.out \notin fresh) =>
                    (fresh = {} /\ chosen.out \in chosen.cands)
             /\ chosen.out = "None" =>
                    (chosen.cands = {} \/ ~from_bits(chosen.flags))
    /\ \A a \in Addrs :
          recently_failed_at[a] # -1 =>
              /\ last_err[a] # -1
              /\ gc_at # -1 => (gc_at - last_err[a]) < REMEBER_FAILED

\* choose_addr had a fresh and a recently failed candidate and returned the
\* fresh one, after a garbage collection that kept the failed one.
C31_Witness ==
    /\ chosen.op = "choose"
    /\ "USE_EXISTING" \notin chosen.flags
    /\ chosen.cands = Addrs
    /\ chosen.failed = {"x"}
    /\ recently_failed_at["x"] # -1
    /\ gc_at > recently_failed_at["x"]
    /\ chosen.out = "y"

\* ------------------------------------------- the end of a connection task
\* The connection task of Val v is running.
OnLiveConnection(v) == con.state = "open" /\ v.conid = con.id

\* No Dval is Subscribed with a Val of a connection whose task has ended.
NoDvalOnTerminated ==
    \A d \in SubIds : dvals[d].state = "Subscribed" => OnLiveConnection(dvals[d].val)

\* No entry of `subscribed` is Subscribed with a Val of a connection whose
\* task has ended.
NoneSubscribedOnTerminated ==
    \A p \in Paths :
        subscribed[p].k = "Subscribed" => OnLiveConnection(subscribed[p].val)

\* The step that ends the connection task: every live subscription leaves
\* `subscribed`, the Dval of its path is Dead, in durable_dead and the
\* supervisor is triggered, and every pending request gets an error.
ConnectionDropStep ==
    (con.state = "open" /\ con'.state # "open") =>
        \A p \in Paths :
            /\ subscriptions[p].on =>
                  /\ subscribed'[p].k # "Subscribed"
                  /\ DvalUpgrade(durable_alive[p]) =>
                        /\ dvals'[durable_alive[p]].state = "Dead"
                        /\ durable_dead'[p] = durable_alive[p]
                        /\ durable_alive'[p] = 0
                        /\ trigger_resub'
            /\ (/\ pending[p].on
                /\ call[pending[p].caller].st[p].k = "Subscribing"
                /\ call[pending[p].caller].st[p].r = NoRes) =>
                  call'[pending[p].caller].st[p].r.t = "err"

\* C32: connection drop invalidates everything on it.  When the connection
\* task ends, every subscription live on it leaves `subscribed`, every Dval
\* whose path was live on it is Dead and in durable_dead with the supervisor
\* triggered, every request pending on it gets an error, and, whatever
\* subscribe or resubscription completes around that step, no Dval is
\* Subscribed and no entry of `subscribed` is Subscribed on a connection
\* whose task has ended.
C32_DropInvalidates ==
    /\ [][ConnectionDropStep]_vars
    /\ [](NoDvalOnTerminated /\ NoneSubscribedOnTerminated)

\* ------------------------------------------------------ pos after a seek
\* The session loop takes a batch of one control write that makes T::seek
\* run: a pos that parses, or a start or end that parses and leaves the
\* cursor without a current position.
SeekStep ==
    /\ process_control_batch
    /\ Len(Head(control_rx)) = 1
    /\ LET req == Head(control_rx)[1]
       IN \/ req.id = "pos" /\ cast_to_Seek(req.value).ok
          \/ /\ req.id = "start"
             /\ parse_bound(req.value).ok
             /\ cursor_set_start(cursor, parse_bound(req.value).v).current = 0
          \/ /\ req.id = "end"
             /\ parse_bound(req.value).ok
             /\ cursor_set_end(cursor, parse_bound(req.value).v).current = 0

Byte(ch) == CASE ch = "!" -> 33 [] ch = "/" -> 47 [] ch = "a" -> 97 [] ch = "b" -> 98

\* Ord for str: the order of the keys of a BTreeMap<Path, _>.
RECURSIVE str_lt(_, _)
str_lt(x, y) ==
    IF y = <<>> THEN FALSE
    ELSE IF x = <<>> THEN TRUE
    ELSE IF Head(x) # Head(y) THEN Byte(Head(x)) < Byte(Head(y))
    ELSE str_lt(Tail(x), Tail(y))

\* Path::is_parent(parent, other): other is parent or lies under it.
is_parent(parent, other) ==
    /\ starts_with(other, parent)
    /\ \/ Len(other) = Len(parent)
       \/ parent = <<"/">>
       \/ other[Len(parent) + 1] = "/"

\* Glob::base of a glob, which the model keeps as its base.
base(glob) == glob

\* btm.range((Unbounded, Excluded(base))).next_back(): the greatest key
\* below base, <<>> for None.
next_back(keys, b) ==
    LET below == {k \in keys : str_lt(k, b)}
    IN IF below = {} THEN <<>>
       ELSE CHOOSE k \in below : \A j \in below : j = k \/ str_lt(j, k)

\* One turn of the loop of CTS::new: the keys of btm after glob.
cts_insert(keys, glob) ==
    LET p == next_back(keys, base(glob))
    IN IF p # <<>> /\ is_parent(p, base(glob)) THEN keys
       ELSE keys \cup {base(glob)}

\* The bases of the globs a recorder is given.
GlobBases ==
    {<<"/", "a">>, <<"/", "a", "/", "a">>, <<"/", "a", "/", "b">>,
     <<"/", "a", "!">>, <<"/", "b">>}

\* The lists of up to n globs.
RECURSIVE GlobLists(_)
GlobLists(n) ==
    IF n = 0 THEN {<<>>}
    ELSE GlobLists(n - 1)
         \cup {Append(l, g) : l \in {x \in GlobLists(n - 1) : Len(x) = n - 1}, g \in GlobBases}

\* for glob in globs
cts_new_step ==
    /\ glob_i < Len(globs)
    /\ btm' = cts_insert(btm, globs[glob_i + 1])
    /\ glob_i' = glob_i + 1
    /\ UNCHANGED <<notCts, globs>>

InitCts ==
    /\ InitRest
    /\ running = TRUE
    /\ pub_pc = "loop"
    /\ rec_pc = "loop"
    /\ NoValues
    /\ globs \in GlobLists(MaxGlobs)
    /\ btm = {}
    /\ glob_i = 0

NextCts == cts_new_step

SpecCts == InitCts /\ [][NextCts]_vars

\* base a is an ancestor of base b.
Ancestor(a, b) == a # b /\ is_parent(a, b)

\* C34: ChangeTracker coalescing.  Once CTS::new has gone through the list
\* of globs, in whatever order they were given, no tracker's base is an
\* ancestor of another tracker's base and the base of every glob equals or
\* descends from exactly one tracker base, so that globs under a common
\* tracked ancestor share its tracker.
C34_Coalesced ==
    glob_i = Len(globs) =>
        /\ \A t, u \in btm : ~Ancestor(t, u)
        /\ \A i \in 1..Len(globs) :
              Cardinality({t \in btm : is_parent(t, base(globs[i]))}) = 1

\* ------------------------------------- subscribe_nondurable to the end
\* Two users call subscribe_nondurable without a timeout, one of them with
\* a batch that may name a path twice.
UserCalls ==
    \/ \E b \in {<<"a">>, <<"a", "a">>} : UserCall("u1", b, FALSE)
    \/ UserCall("u2", <<"a">>, FALSE)
    \/ \E u \in Users : UserDrop(u)

\* The resolver answers.
ResolverCalls ==
    \E c \in Users, o \in {"resolved", "failed"}, found \in SUBSET {"a"} :
        ResolveDone(c, o, found)

\* The futures of the callers are polled.
WaitCalls == \E c \in Users : wait_result(c, "a")

\* The connection task and the publisher answer.
ConCalls ==
    \/ \E f \in {"Subscribed", "NoSuchValue"} : ConSubscribe(f)
    \/ ConSubscribed
    \/ ConRefused
    \/ ConUnsubscribe
    \/ ConUnsubscribed

NextCalls == UserCalls \/ ResolverCalls \/ WaitCalls \/ ConCalls \/ ConDie

SpecCalls ==
    /\ Init
    /\ [][NextCalls]_vars
    /\ \A c \in Users :
          WF_vars(\E o \in {"resolved", "failed"}, found \in SUBSET {"a"} :
                     ResolveDone(c, o, found))
    /\ \A c \in Users : WF_vars(wait_result(c, "a"))
    /\ WF_vars(ConCalls)

\* C35: every subscribe_nondurable call completes.  Every call, whatever
\* its batch, a batch that names a path twice included, has yielded a result
\* for each of its paths once the resolver and the connection have answered
\* or failed, and no entry of `subscribed` is Pending with no caller
\* resolving it or subscribing to it.
C35_CallCompletes ==
    /\ \A u \in Users : (call[u].pc \in {"resolving", "waiting"}) ~> (call[u].pc = "done")
    /\ [](\A p \in Paths : subscribed[p].k = "Pending" => Initiators(p) # {})

\* ------------------------------------------------- durable bookkeeping
\* One user subscribes durably and drops its Dval, again and again, while
\* the supervisor has up to two batches of resubscriptions in flight and the
\* connection serves them, loses subscriptions and dies.
NextBooks ==
    \/ subscribe("u2", "a")
    \/ DropDval("u2")
    \/ SupTrigger(Sups)
    \/ SupRetry(Sups)
    \/ \E s \in Sups : SupInit(s)
    \/ SupFinish
    \/ \E s \in Sups : wait_result(s, "a")
    \/ \E s \in Sups, o \in {"resolved", "failed"}, found \in SUBSET {"a"} :
          ResolveDone(s, o, found)
    \/ ConSubscribe("Subscribed")
    \/ ConSubscribed
    \/ ConUnsubscribe
    \/ ConUnsubscribed
    \/ PubUnsubscribe("a")
    \/ ConDie
    \/ Tick

SpecBooks == Init /\ [][NextBooks]_vars

\* The maps that have an entry for path p, and those whose entry is the weak
\* handle of a Dval that is alive.
Registered(p) ==
    {m \in {"dead", "pending", "alive"} :
        \/ m = "dead" /\ durable_dead[p] # 0
        \/ m = "pending" /\ durable_pending[p] # 0
        \/ m = "alive" /\ durable_alive[p] # 0}

RegisteredAlive(p) ==
    {m \in {"dead", "pending", "alive"} :
        \/ m = "dead" /\ DvalUpgrade(durable_dead[p])
        \/ m = "pending" /\ DvalUpgrade(durable_pending[p])
        \/ m = "alive" /\ DvalUpgrade(durable_alive[p])}

\* Every live Dval of durable_dead and durable_pending is Dead and every
\* live Dval of durable_alive is Subscribed, so that no unreachable!() of
\* update_retry, do_resub and finish_resubscription_batch is executed.
StatesAgree ==
    /\ \A p \in Paths :
          /\ DvalUpgrade(durable_dead[p]) => dvals[durable_dead[p]].state = "Dead"
          /\ DvalUpgrade(durable_pending[p]) =>
                dvals[durable_pending[p]].state = "Dead"
          /\ DvalUpgrade(durable_alive[p]) =>
                dvals[durable_alive[p]].state = "Subscribed"
    /\ ~DeadIsSubscribed(durable_dead, dvals)

\* C36 as stated: each path has an entry in at most one of the three maps,
\* and the states of the live Dvals agree with the maps they are in.
C36_OneMap ==
    /\ \A p \in Paths : Cardinality(Registered(p)) <= 1
    /\ StatesAgree

\* C36: durable bookkeeping invariant.  In every reachable state each path
\* has the weak handle of a live Dval in at most one of durable_dead,
\* durable_pending and durable_alive (the handle of a dropped Dval may still
\* be in another), every live Dval of durable_dead or durable_pending is
\* Dead and every live Dval of durable_alive is Subscribed, so that the
\* unreachable!() arms of the supervisor are never executed.
C36_Bookkeeping ==
    /\ \A p \in Paths : Cardinality(RegisteredAlive(p)) <= 1
    /\ StatesAgree

\* The handle of a dropped Dval is still in durable_pending while a new
\* Dval of the same path is in durable_dead.
C36_Witness ==
    /\ durable_pending["a"] = Gone
    /\ DvalUpgrade(durable_dead["a"])
    /\ dvals[durable_dead["a"]].state = "Dead"
    /\ call["s1"].pc # "idle"

\* ------------------------------------------- send: what a round dispatches
\* The requests send hands to a connection in the round being dispatched.
Dispatched == {i \in DOMAIN sbatch : \E n \in DOMAIN waiters' : \E k \in DOMAIN waiters'[n] : waiters'[n][k] = i}

\* C37: re-dispatch concerns only referred requests.  Within one call of
\* send, a round never dispatches a request that a resolver has already
\* answered with something other than a referral in an earlier round, and
\* so no request of the batch is executed by a resolver more than once in
\* the call, and a call that succeeds has executed each exactly once.
C37_OnlyReferredAgain ==
    /\ [][send_pc = "route" /\ send_pc' = "wait"
            => \A i \in Dispatched : executed[i] = 0]_vars
    /\ [](\A i \in DOMAIN executed : executed[i] <= 1)
    /\ [](send_pc = "ok" => \A i \in DOMAIN executed : executed[i] = 1)

\* ------------------------------------------------- a seek while tailing
\* The session loop takes a batch of one write to the pos control whose
\* value casts to a Seek.
PosStep ==
    /\ process_control_batch
    /\ Len(Head(control_rx)) = 1
    /\ Head(control_rx)[1].id = "pos"
    /\ cast_to_Seek(Head(control_rx)[1].value).ok

\* C38: seeking leaves Tail.  After a valid write to the pos control is
\* processed while the session is in Tail, the session is in Play and the
\* state control shows play; a valid pos write in Pause or in Play leaves
\* the state and the state control as they were.
C38_SeekLeavesTail ==
    [][PosStep => IF state = "Tail"
                  THEN state' = "Play" /\ state_ctl' = "play"
                  ELSE state' = state /\ state_ctl' = state_ctl]_vars

\* The half of C38 about Pause and Play.
C38_OtherStatesKept ==
    [][PosStep /\ state # "Tail" => state' = state /\ state_ctl' = state_ctl]_vars

\* ------------------------------------------ the loop for oversized batches
\* The encoded sizes of the updates of a batch of one or two updates, some
\* of which do not fit a record even alone.
BigSizes == UNION {[1..n -> 1..(MaxRecord + 1)] : n \in 1..2}

\* The recorder takes batches in which one update may be too large for a
\* record by itself, until the archive holds MaxArchive records.
NextOversize ==
    \/ \E sizes \in BigSizes : EndBatch(sizes)
    \/ Len(archive) < MaxArchive /\ add_batch
    \/ add_image
    \/ \E w \in 0..MaxWall : WallClock(w)

SpecOversize == Init /\ [][NextOversize]_vars

\* The updates the loop still has to write, and what one call of add_batch
\* must make smaller for the loop to end: the updates left, then the length
\* of tbatch.
RECURSIVE Left(_)
Left(ov) == IF ov = <<>> THEN 0 ELSE Len(Head(ov)) + Left(Tail(ov))

Measure(tb, ov, pc) ==
    IF pc # "add" THEN 0 ELSE (MaxItems + 1) * (Len(tb) + Left(ov)) + Len(tb) + 1

\* C39: the oversized-batch loop terminates.  For every pending batch,
\* also one of a single update that is itself too large, every call of
\* add_batch in the split-and-retry loop brings the loop closer to its end
\* (fewer updates left to write, or as many and a shorter tbatch), so the
\* loop ends after finitely many calls; and no empty batch is written to
\* the archive or broadcast.
C39_SplitTerminates ==
    /\ [][split_pc = "add" /\ timest' # timest
            => Measure(tbatch', overflow', split_pc') < Measure(tbatch, overflow, split_pc)]_vars
    /\ [](\A n \in DOMAIN archive : archive[n].image \/ archive[n].items # <<>>)
    /\ [](\A n \in DOMAIN sent : sent[n].items # <<>>)

\* --------------------------------------- several writes in one batch
\* Batches of control writes: one write, two writes to the same control,
\* and writes to different controls.
OrderInputs ==
    {<<Req("state", String(<<"t", "a", "i", "l">>), FALSE)>>,
     <<Req("state", String(<<"p", "a", "u", "s", "e">>), FALSE),
       Req("state", String(<<"p", "l", "a", "y">>), FALSE)>>,
     <<Req("pos", String(<<"+", "1">>), FALSE),
       Req("pos", String(<<"+", "1">>), FALSE)>>,
     <<Req("start", DateTime(2), FALSE),
       Req("pos", String(<<"b", "e", "g", "i", "n", "n", "i", "n", "g">>), FALSE),
       Req("state", String(<<"p", "l", "a", "y">>), FALSE)>>,
     <<Req("pos", String(<<"e", "n", "d">>), FALSE),
       Req("end", DateTime(2), FALSE)>>}

\* A replay session takes batches of several control writes while the
\* recorder appends to the archive.
NextOrder ==
    \/ RecordBatch
    \/ cluster_cmds = <<>> /\ \E batch \in OrderInputs : WriteBatch(batch)
    \/ process_control_batch
    \/ process_bcast
    \/ T_next
    \/ T_next_wake
    \/ PeerApply

SpecOrder == Init /\ [][NextOrder]_vars

\* The session after the writes of batch have been applied one at a time,
\* in the order in which the client submitted them.
InArrivalOrder(S, batch, A) ==
    ApplyAll([S |-> S, cmds |-> <<>>, errs |-> {}], batch,
             [i \in DOMAIN batch |-> i], A).S

\* C40: control writes are applied in arrival order.  When the session
\* loop takes a batch of several control writes, the session it leaves is
\* the one obtained by applying every write of the batch, one at a time, in
\* the order in which the client submitted them.
C40_ArrivalOrder ==
    [][process_control_batch
         => CurT' = InArrivalOrder(CurT, Head(control_rx), alen)]_vars

====
